---- MODULE Spec2Model ----
(***************************************************************************)
(* A model of local_operator/executor.py (LocalCodeExecutor): the          *)
(* conversation store (append, trim, summarization sweep, ephemeral HUD),  *)
(* the agent state shared between executors, the code sandbox's output     *)
(* capture, and the safety-gated action pipeline of perform_action.        *)
(*                                                                         *)
(* Conversation records are Python objects: every record of the model      *)
(* carries the identity (uid) of its object, so that two list positions    *)
(* holding the same object, and a mutation of that object seen through     *)
(* both, are represented.  Text is a sequence of tokens.                   *)
(***************************************************************************)
EXTENDS Integers, Sequences, FiniteSets, TLC

\* ------------------------------------------------------------------ bounds

\* Largest max_conversation_history an executor is configured with.
MaxHist == 3
\* Largest detail_conversation_length an executor is configured with.
MaxDetail == 2
\* Number of conversation records ever created in one run.
MaxRecords == 6
\* Longest history handed to initialize_conversation_history / load_agent_state.
MaxLoad == 2
\* Number of summarizer model calls that may fail in one run.
MaxModelFailures == 1
\* Largest max_learnings_history an executor is constructed with in the two-executor runs.
MaxLearn == 2
\* Number of execution results one agent state comes to hold.
MaxResults == 2
\* Number of response objects in one run of the action pipeline.
MaxResponses == 2
\* Largest max_retries execute_code is called with.
MaxRetries == 2
\* Number of conversation records ever created in one run of the action pipeline.
MaxActRecords == 8
\* Longest record list handed to _convert_and_stream in the conversion runs.
MaxMessages == 5
\* Most records after the system prompt in a conversation that is audited.
MaxTail == 9
\* Longest auditor text, in words, given to get_confirm_safety_result.
MaxWords == 3
\* Largest max_attempts given to invoke_model.
MaxAttempts == 3
\* Most tokens of the file on disk at the start, and most replacements of one EDIT.
MaxFileTokens == 3
MaxReplacements == 2
\* Most statements of a snippet given to _run_code.
MaxStatements == 2
\* Most events a websocket is sent before new subscriptions and broadcasts stop.
MaxInbox == 1

\* ------------------------------------------------------------------ state

VARIABLES
    agent_state_ref,            \* executor -> the AgentState object it holds
    conversation,               \* AgentState object -> list of records
    learnings,                  \* AgentState object -> list of learnings
    execution_history,          \* AgentState object -> list of execution results
    next_uid,                   \* identity of the next record object created
    max_conversation_history,   \* executor -> int
    detail_conversation_length, \* executor -> int
    pc,                         \* executor -> where its task is suspended
    history_to_summarize,       \* executor -> rest of the sweep's snapshot list (uids)
    last_op,                    \* the operation that completed last (history variable)
    initialized,                \* executors whose conversation has been initialized
    summarizer_calls,           \* the calls of _summarize_conversation_step so far
    model_failures,             \* failed summarizer calls so far
    max_learnings_history,      \* executor -> int
    sys_stdout,                 \* the process's sys.stdout: the console or an executor's buffer
    old_stdout,                 \* executor -> what its execution saved as old_stdout
    new_stdout,                 \* executor -> the StringIO of its execution
    run_pc,                     \* executor -> where its _execute_with_output is suspended
    captured,                   \* executor -> the stdout its last execution recorded
    can_prompt_user,            \* executor -> bool
    act_pc,                     \* executor -> where its perform_action / execute_code is suspended
    frame,                      \* executor -> the locals of that call
    next_rid,                   \* identity of the next response object
    approved,                   \* responses an audit or the user let through (history variable)
    effects,                    \* side effects performed so far (history variable)
    stale_ephemerals,           \* ephemeral records that were there at a model call of the action pipeline
    last_call,                  \* the last model call of the action pipeline (history variable)
    interrupted,                \* executor -> its interrupt flag
    step_counter,               \* executor -> int
    execute_code_result,        \* executor -> what its last execute_code returned
    returned,                   \* executor -> what its last process_response / perform_action returned
    messages,                   \* the record list handed to _convert_and_stream
    messages_list,              \* the outgoing messages it built from them
    should_manual_cache_control, \* whether the provider is Anthropic
    invoke,                     \* the locals of the invoke_model call, with what it did so far
    response_content,           \* the auditor's text given to get_confirm_safety_result
    confirm_safety_result,      \* the verdict it returned
    disk,                       \* the content of the file the file actions work on
    context,                    \* executor -> the names in its sandbox namespace
    last_code,                  \* the snippet _run_code ran last (history variable)
    persistence,                \* executor -> whether it persists, where its process_response is, its update_agent_state calls
    active_connections,         \* ConnectionManager: client_id -> list of websockets
    job_subscribers,            \* ConnectionManager: job_id -> set of websockets
    endpoint,                   \* websocket -> where its websocket_endpoint is
    inbox,                      \* websocket -> the events it was sent
    job_status,                 \* job_id -> the status the job manager holds
    job_update,                 \* the locals of the broadcast_job_update call in flight
    fanout,                      \* the locals of the broadcast call in flight
    tools,                      \* ToolRegistry._tools: name -> tool
    attributes,                 \* the ToolRegistry instance's own attributes (but _tools)
    catalogue,                  \* names added by add_tool or init_tools, not removed since
    stream_call,                \* the locals of the stream_model call in flight
    yielded,                    \* the chunks the consumer of stream_model received
    token_metrics,              \* the executor's token totals
    response_str,               \* the model response handed to process_json_response
    json_content,               \* what clean_json_response returned last
    passes                      \* how often clean_json_response was applied

convVars == <<agent_state_ref, conversation, learnings, execution_history, next_uid,
              max_conversation_history, detail_conversation_length, pc,
              history_to_summarize, last_op, initialized, summarizer_calls,
              model_failures>>

convVars_but_last_op ==
    <<agent_state_ref, conversation, learnings, execution_history, next_uid,
      max_conversation_history, detail_conversation_length, pc, history_to_summarize,
      initialized, summarizer_calls, model_failures>>

\* What the conversation methods never touch.
sandboxVars == <<sys_stdout, old_stdout, new_stdout, run_pc, captured>>

\* What perform_action sets when it returns.
returnVars == <<step_counter, returned>>

actVars == <<can_prompt_user, act_pc, frame, next_rid, approved, effects,
             stale_ephemerals, last_call, interrupted, returnVars, execute_code_result>>

sendVars == <<messages, messages_list, should_manual_cache_control, invoke>>

verdictVars == <<response_content, confirm_safety_result>>

\* The websocket server.
serverVars == <<active_connections, job_subscribers, endpoint, inbox, job_status, job_update,
                fanout>>

\* The tool registry.
registryVars == <<tools, attributes, catalogue>>

\* stream_model.
streamVars == <<stream_call, yielded, token_metrics>>

\* process_json_response.
jsonVars == <<response_str, json_content, passes>>

\* What the executor never touches.
apartVars == <<serverVars, registryVars, streamVars, jsonVars>>

\* The sandbox namespace.
namespaceVars == <<context, last_code>>

otherVars == <<max_learnings_history, sandboxVars, actVars, sendVars, verdictVars, disk, namespaceVars, persistence, apartVars>>

vars == <<convVars, otherVars>>

Executors == {"e1", "e2"}

\* AgentState objects: one per executor constructed with an explicit agent_state,
\* and the single object that is the default value of __init__'s parameter.
DefaultAgentState == "default"

\* __init__'s default for max_learnings_history.
DefaultMaxLearningsHistory == 50
StateIds == Executors \cup {DefaultAgentState}

\* ------------------------------------------------------------------ text

SummaryTag == "[SUMMARY]"

\* Texts the summarizer model may return: it is asked for "[SUMMARY] ..." but
\* the reply is whatever the model produces.
SummarizerReplies == { <<SummaryTag, "s">>, <<"s">> }

StartsWith(text, token) == Len(text) >= 1 /\ text[1] = token

\* ------------------------------------------------------------------ records

DefaultShouldSummarize == TRUE

DefaultShouldCache == FALSE

\* ConversationRecord(...): a new object; uid is given when it enters a conversation.
ConversationRecord(role, content, should_summarize, ephemeral, is_system_prompt, should_cache) ==
    [uid |-> 0, role |-> role, content |-> content,
     should_summarize |-> should_summarize, summarized |-> FALSE,
     ephemeral |-> ephemeral, is_system_prompt |-> is_system_prompt,
     should_cache |-> should_cache]

SystemPromptRecord(should_cache) ==
    ConversationRecord("system", <<"system_prompt">>, DefaultShouldSummarize,
                       FALSE, TRUE, should_cache)

TruncationMarker ==
    ConversationRecord("user", <<"[Some conversation history has been truncated for brevity]">>,
                       FALSE, FALSE, FALSE, DefaultShouldCache)

HudRecord ==
    ConversationRecord("user", <<"hud">>, FALSE, TRUE, FALSE, DefaultShouldCache)

\* Records a caller appends through append_to_history.
AppendableRecords ==
    { ConversationRecord("user", <<"text">>, TRUE, FALSE, FALSE, DefaultShouldCache),
      ConversationRecord("assistant", <<"text">>, FALSE, FALSE, FALSE, DefaultShouldCache) }

\* Records of a stored history: a stale system prompt and ordinary turns.
LoadableRecords ==
    { SystemPromptRecord(DefaultShouldCache),
      ConversationRecord("user", <<"text">>, TRUE, FALSE, FALSE, DefaultShouldCache) }

RECURSIVE SeqsUpTo(_, _)
SeqsUpTo(S, n) ==
    IF n = 0 THEN { <<>> }
    ELSE LET shorter == SeqsUpTo(S, n - 1)
         IN shorter \cup { Append(s, x) : s \in { t \in shorter : Len(t) = n - 1 }, x \in S }

LoadableHistories == SeqsUpTo(LoadableRecords, MaxLoad)

\* ------------------------------------------------------------------ Python slices

\* A slice bound as Python normalizes it for a list of length n: a negative bound
\* counts from the end, and every bound is clamped to 0..n.  Note that -0 = 0.
PyIndex(i, n) ==
    IF i < 0 THEN (IF i + n < 0 THEN 0 ELSE i + n)
    ELSE (IF i > n THEN n ELSE i)

\* s[start:stop]
PySlice(s, start, stop) ==
    LET a == PyIndex(start, Len(s))
        b == PyIndex(stop, Len(s))
    IN IF a >= b THEN <<>> ELSE SubSeq(s, a + 1, b)

\* s[start:]
PySliceFrom(s, start) == PySlice(s, start, Len(s))

\* ------------------------------------------------------------------ conversation store

\* The conversation after an operation and the next free object identity.
Store(conv, next) == [conv |-> conv, next |-> next]

\* The object created by a constructor call, with its identity.
New(record, uid) == [record EXCEPT !.uid = uid]

\* A trim that keeps only the marker and the recent chunk.
LimitConversationHistory_DropsFirst(st, max) ==
    LET chunk_size == max \div 2
    IN IF Len(st.conv) - 1 > max
       THEN Store(<<New(TruncationMarker, st.next)>> \o PySliceFrom(st.conv, -chunk_size),
                  st.next + 1)
       ELSE st

\* _limit_conversation_history
LimitConversationHistory(st, max) ==
    LET chunk_size == max \div 2
    IN IF Len(st.conv) - 1 > max
       THEN Store(<<st.conv[1], New(TruncationMarker, st.next)>>
                      \o PySliceFrom(st.conv, -chunk_size),
                  st.next + 1)
       ELSE st

\* append_to_history
AppendToHistory(st, new_record, max) ==
    LimitConversationHistory(
        Store(Append(st.conv, New(new_record, st.next)), st.next + 1), max)

\* remove_ephemeral_messages
RemoveEphemeralMessages(st) ==
    Store(SelectSeq(st.conv, LAMBDA msg : ~msg.ephemeral), st.next)

\* update_ephemeral_messages
UpdateEphemeralMessages(st, max) ==
    AppendToHistory(RemoveEphemeralMessages(st), HudRecord, max)

\* [record for record in history if not record.is_system_prompt]
FilteredHistory(history) == SelectSeq(history, LAMBDA r : ~r.is_system_prompt)

\* history + filtered_history, as built by initialize_conversation_history and
\* load_agent_state: a fresh system prompt, then the loaded records that are
\* not system prompts.
WithSystemPrompt(next, system_prompt, history) ==
    LET kept == FilteredHistory(history)
    IN Store(<<New(system_prompt, next)>>
                 \o [i \in 1..Len(kept) |-> New(kept[i], next + i)],
             next + 1 + Len(kept))

\* A loop test that forgets the summarized flag.
SkipsSummarization_IgnoresFlag(msg) == ~msg.should_summarize

\* The test of the sweep's loop: "if not msg.should_summarize or msg.summarized: continue"
SkipsSummarization(msg) == ~msg.should_summarize \/ msg.summarized

\* The record object with a given identity, as the conversation shows it.
Object(conv, uid) == conv[CHOOSE i \in 1..Len(conv) : conv[i].uid = uid]

RECURSIVE DropSkipped(_, _)
\* The sweep's list from the first record it will send to the summarizer.
DropSkipped(uids, conv) ==
    IF uids = <<>> THEN <<>>
    ELSE IF SkipsSummarization(Object(conv, Head(uids))) THEN DropSkipped(Tail(uids), conv)
    ELSE uids

\* "msg.content = summary; msg.summarized = True": the object changes, wherever
\* the list holds it.
StoreSummary(conv, uid, summary) ==
    [i \in 1..Len(conv) |->
        IF conv[i].uid = uid
        THEN [conv[i] EXCEPT !.content = summary, !.summarized = TRUE]
        ELSE conv[i]]

Uids(msgs) == [i \in 1..Len(msgs) |-> msgs[i].uid]

Self(e) == agent_state_ref[e]

Op(name, e) == [op |-> name, e |-> e]

\* ------------------------------------------------------------------ actions

\* initialize_conversation_history(new_conversation_history, overwrite); it raises,
\* changing nothing, when the conversation is not empty and overwrite is false.
InitializeConversationHistory(e, history, overwrite) ==
    /\ pc[e] = "idle"
    /\ act_pc[e] = "idle"
    /\ overwrite \/ Len(conversation[Self(e)]) = 0
    /\ next_uid + Len(history) <= MaxRecords
    /\ LET st == WithSystemPrompt(next_uid, SystemPromptRecord(DefaultShouldCache), history)
       IN /\ conversation' = [conversation EXCEPT ![Self(e)] = st.conv]
          /\ next_uid' = st.next
    /\ initialized' = initialized \cup {e}
    /\ last_op' = Op("initialize", e)
    /\ UNCHANGED <<agent_state_ref, learnings, execution_history, max_conversation_history,
                   detail_conversation_length, pc, history_to_summarize,
                   summarizer_calls, model_failures>>
    /\ UNCHANGED otherVars

\* load_agent_state(new_agent_state)
LoadAgentState(e, new_agent_state) ==
    /\ pc[e] = "idle"
    /\ next_uid + Len(new_agent_state.conversation) <= MaxRecords
    /\ LET st == WithSystemPrompt(next_uid, SystemPromptRecord(TRUE),
                                  new_agent_state.conversation)
       IN /\ conversation' = [conversation EXCEPT ![Self(e)] = st.conv]
          /\ next_uid' = st.next
    /\ execution_history' =
          [execution_history EXCEPT ![Self(e)] = new_agent_state.execution_history]
    /\ learnings' = [learnings EXCEPT ![Self(e)] = new_agent_state.learnings]
    /\ initialized' = initialized \cup {e}
    /\ last_op' = Op("load", e)
    /\ UNCHANGED <<agent_state_ref, max_conversation_history, detail_conversation_length,
                   pc, history_to_summarize, summarizer_calls, model_failures>>
    /\ UNCHANGED otherVars

\* append_to_history(new_record) called by the executor's user
AppendRecord(e, new_record) ==
    /\ pc[e] = "idle"
    /\ next_uid + 1 <= MaxRecords
    /\ LET st == AppendToHistory(Store(conversation[Self(e)], next_uid), new_record,
                                 max_conversation_history[e])
       IN /\ conversation' = [conversation EXCEPT ![Self(e)] = st.conv]
          /\ next_uid' = st.next
    /\ last_op' = Op("append", e)
    /\ UNCHANGED <<agent_state_ref, learnings, execution_history, max_conversation_history,
                   detail_conversation_length, pc, history_to_summarize, initialized,
                   summarizer_calls, model_failures>>
    /\ UNCHANGED otherVars

\* update_ephemeral_messages()
RefreshEphemeral(e) ==
    /\ pc[e] = "idle"
    /\ act_pc[e] = "idle"
    /\ next_uid + 1 <= MaxRecords
    /\ LET st == UpdateEphemeralMessages(Store(conversation[Self(e)], next_uid),
                                         max_conversation_history[e])
       IN /\ conversation' = [conversation EXCEPT ![Self(e)] = st.conv]
          /\ next_uid' = st.next
    /\ last_op' = Op("update_ephemeral", e)
    /\ UNCHANGED <<agent_state_ref, learnings, execution_history, max_conversation_history,
                   detail_conversation_length, pc, history_to_summarize, initialized,
                   summarizer_calls, model_failures>>
    /\ UNCHANGED otherVars

\* _summarize_old_steps up to its first summarizer call: it returns at once when
\* there is at most the system prompt, when detail_conversation_length = -1, and
\* when its loop skips every record of conversation[1 : -detail_conversation_length].
SummarizeOldSteps(e) ==
    /\ pc[e] \in {"idle", "sweep_pending"}
    /\ act_pc[e] = "idle"
    /\ LET conv == conversation[Self(e)]
           todo == IF Len(conv) <= 1 \/ detail_conversation_length[e] = -1
                   THEN <<>>
                   ELSE DropSkipped(
                            Uids(PySlice(conv, 1, -detail_conversation_length[e])), conv)
       IN /\ history_to_summarize' = [history_to_summarize EXCEPT ![e] = todo]
          /\ pc' = [pc EXCEPT ![e] = IF todo = <<>> THEN "idle" ELSE "summarize"]
          /\ last_op' = Op(IF todo = <<>> THEN "sweep_done" ELSE "sweep_call", e)
    /\ UNCHANGED <<agent_state_ref, conversation, learnings, execution_history, next_uid,
                   max_conversation_history, detail_conversation_length, initialized,
                   summarizer_calls, model_failures>>
    /\ UNCHANGED otherVars

\* One call of _summarize_conversation_step, as the log keeps it.
SummarizerCall(e, stored) ==
    LET uid == Head(history_to_summarize[e])
    IN [uid |-> uid,
        was_summarized |-> Object(conversation[Self(e)], uid).summarized,
        stored |-> stored,
        again |-> \E c \in summarizer_calls : c.uid = uid /\ c.stored]

\* The summarizer's reply arrives: "msg.content = summary; msg.summarized = True",
\* and the loop runs on to its next summarizer call or to its end.
SummarizeConversationStep(e, summary) ==
    /\ pc[e] = "summarize"
    /\ LET uid == Head(history_to_summarize[e])
           conv == StoreSummary(conversation[Self(e)], uid, summary)
           todo == DropSkipped(Tail(history_to_summarize[e]), conv)
       IN /\ conversation' = [conversation EXCEPT ![Self(e)] = conv]
          /\ summarizer_calls' = summarizer_calls \cup {SummarizerCall(e, TRUE)}
          /\ history_to_summarize' = [history_to_summarize EXCEPT ![e] = todo]
          /\ pc' = [pc EXCEPT ![e] = IF todo = <<>> THEN "idle" ELSE "summarize"]
          /\ last_op' = Op(IF todo = <<>> THEN "sweep_done" ELSE "sweep_call", e)
    /\ UNCHANGED <<agent_state_ref, learnings, execution_history, next_uid,
                   max_conversation_history, detail_conversation_length, initialized,
                   model_failures>>
    /\ UNCHANGED otherVars

\* The summarizer call raises (invoke_model gave up): the sweep ends there.
SummarizeRaises(e) ==
    /\ pc[e] = "summarize"
    /\ model_failures < MaxModelFailures
    /\ model_failures' = model_failures + 1
    /\ summarizer_calls' = summarizer_calls \cup {SummarizerCall(e, FALSE)}
    /\ history_to_summarize' = [history_to_summarize EXCEPT ![e] = <<>>]
    /\ pc' = [pc EXCEPT ![e] = "idle"]
    /\ last_op' = Op("sweep_raised", e)
    /\ UNCHANGED <<agent_state_ref, conversation, learnings, execution_history, next_uid,
                   max_conversation_history, detail_conversation_length, initialized>>
    /\ UNCHANGED otherVars

\* ------------------------------------------------------------------ one executor

\* LocalCodeExecutor.__init__: the conversation is empty until it is initialized.
InitExecutors(refs) ==
    /\ agent_state_ref = refs
    /\ conversation = [s \in StateIds |-> <<>>]
    /\ learnings = [s \in StateIds |-> <<>>]
    /\ execution_history = [s \in StateIds |-> <<>>]
    /\ next_uid = 1
    /\ pc = [e \in Executors |-> "idle"]
    /\ history_to_summarize = [e \in Executors |-> <<>>]
    /\ last_op = Op("construct", "e1")
    /\ initialized = {}
    /\ summarizer_calls = {}
    /\ model_failures = 0

\* The process before any sandbox execution: sys.stdout is the console.
Console == "console"

\* io.StringIO()
StringIO == [closed |-> FALSE, value |-> <<>>]

\* ------------------------------------------------------------------ websocket server state
Websockets == {"w1", "w2", "w3"}
Jobs == {"j1"}

\* The client_id in the URL a websocket connects to.
ClientOf(websocket) == IF websocket = "w3" THEN "c2" ELSE "c1"

NoJobUpdate ==
    [pc |-> "idle", job_id |-> "", message |-> "", connection |-> "", accepted |-> FALSE,
     started_with |-> {}, iterated |-> {}, live |-> FALSE, disconnected |-> <<>>, sent |-> {},
     outcome |-> "none"]

NoBroadcast ==
    [pc |-> "idle", client_id |-> "", connections |-> <<>>, index |-> 0, connection |-> "",
     live |-> FALSE, disconnected |-> <<>>, outcome |-> "none"]

EmptyDict == [k \in {} |-> {}]

\* manager = ConnectionManager(), no websocket accepted yet, the jobs running.
InitServer ==
    /\ active_connections = EmptyDict
    /\ job_subscribers = EmptyDict
    /\ endpoint = [w \in Websockets |-> [state |-> "new", job_id |-> ""]]
    /\ inbox = [w \in Websockets |-> <<>>]
    /\ job_status = [j \in Jobs |-> "processing"]
    /\ job_update = NoJobUpdate
    /\ fanout = NoBroadcast

\* ToolRegistry(): an empty _tools; the provider clients are class attributes, None.
InitRegistry ==
    /\ tools = EmptyDict
    /\ attributes = EmptyDict
    /\ catalogue = {}

\* No stream_model call yet, the token totals of a new executor.
NoStream == [pc |-> "idle", attempt |-> 0, max_attempts |-> 0, stream |-> 0, position |-> 0]
InitStreamModel ==
    /\ stream_call = NoStream
    /\ yielded = <<>>
    /\ token_metrics = [total_completion_tokens |-> 0, updates |-> 0]

InitStreams ==
    /\ InitServer
    /\ InitRegistry
    /\ InitStreamModel
    /\ response_str = <<>>
    /\ json_content = <<>>
    /\ passes = 0
    /\ persistence = [e \in Executors |-> [persist_conversation |-> e = "e1", pc |-> "idle",
                                          update_agent_state |-> 0]]
    /\ context = [e \in Executors |-> {}]
    /\ last_code = <<>>
    /\ response_content = <<>>
    /\ confirm_safety_result = "NONE"
    /\ sys_stdout = Console
    /\ old_stdout = [e \in Executors |-> Console]
    /\ new_stdout = [e \in Executors |-> [StringIO EXCEPT !.closed = TRUE]]
    /\ run_pc = [e \in Executors |-> "idle"]
    /\ captured = [e \in Executors |-> <<>>]

NoResponse == [rid |-> 0, action |-> "NONE", complete |-> FALSE]

NoFrame == [response |-> NoResponse, current_response |-> NoResponse, attempt |-> 0,
            max_retries |-> 0, caller |-> "none", final_error |-> <<>>]

NoCall == [kind |-> "none", stale_sent |-> FALSE]

NoResult ==
    [status |-> "NONE", message |-> <<>>, stderr |-> <<>>, execution_type |-> "NONE",
     action |-> "NONE"]

CodeExecutionResult(status, message, execution_type, action) ==
    [status |-> status, message |-> message, stderr |-> <<>>,
     execution_type |-> execution_type, action |-> action]

\* invoke_model has not been called.
NoInvoke ==
    [pc |-> "idle", max_attempts |-> 0, attempt |-> 0, calls |-> 0,
     last_error |-> [status_code |-> 0, headers |-> "none", call |-> 0],
     errors |-> <<>>, slept |-> <<>>, outcome |-> <<>>]

ProcessResponseOutput(status, message) == [status |-> status, message |-> message]

\* Nothing has returned yet.
NotReturned == ProcessResponseOutput("NONE", <<>>)

\* No perform_action or execute_code has been called yet.
InitPipeline(prompting) ==
    /\ can_prompt_user = [e \in Executors |-> prompting]
    /\ act_pc = [e \in Executors |-> "idle"]
    /\ frame = [e \in Executors |-> NoFrame]
    /\ next_rid = 1
    /\ approved = {}
    /\ effects = {}
    /\ stale_ephemerals = {}
    /\ last_call = NoCall
    /\ interrupted = [e \in Executors |-> FALSE]
    /\ step_counter = [e \in Executors |-> 1]
    /\ returned = [e \in Executors |-> NotReturned]
    /\ execute_code_result = [e \in Executors |-> NoResult]
    /\ messages = <<>>
    /\ messages_list = <<>>
    /\ should_manual_cache_control = FALSE
    /\ invoke = NoInvoke

EmptyAgentState == [conversation |-> <<>>, execution_history |-> <<>>, learnings |-> <<>>]

LoadableAgentStates ==
    { [EmptyAgentState EXCEPT !.conversation = h] : h \in LoadableHistories }

Init ==
    /\ InitExecutors([e \in Executors |-> e])
    /\ \E m \in 0..MaxHist : max_conversation_history = [e \in Executors |-> m]
    /\ \E d \in -1..MaxDetail : detail_conversation_length = [e \in Executors |-> d]
    /\ max_learnings_history = [e \in Executors |-> DefaultMaxLearningsHistory]
    /\ InitStreams
    /\ disk = <<>>
    /\ InitPipeline(TRUE)

ConversationStep(e) ==
    \/ \E h \in LoadableHistories, overwrite \in BOOLEAN :
          InitializeConversationHistory(e, h, overwrite)
    \/ \E st \in LoadableAgentStates : LoadAgentState(e, st)
    \/ \E r \in AppendableRecords : AppendRecord(e, r)
    \/ RefreshEphemeral(e)
    \/ SummarizeOldSteps(e)
    \/ \E summary \in SummarizerReplies : SummarizeConversationStep(e, summary)
    \/ SummarizeRaises(e)

Next == ConversationStep("e1")

Spec == Init /\ [][Next]_vars

\* ------------------------------------------------------------------ claims: conversation store

Conv(e) == conversation[Self(e)]

IsTruncationMarker(msg) ==
    /\ msg.role = "user"
    /\ msg.content = TruncationMarker.content
    /\ ~msg.should_summarize

\* The positions the sweep is to cover: not the system prompt's, and before the
\* last detail_conversation_length records.
OlderThanDetail(e) == 2..(Len(Conv(e)) - detail_conversation_length[e])

\* C4: once the conversation of an executor has been initialized, conversation[0]
\* is the system prompt record, whatever appends, trims, HUD refreshes and
\* summarization sweeps followed.
C4_SystemPromptFirst ==
    \A e \in initialized : Len(Conv(e)) >= 1 /\ Conv(e)[1].is_system_prompt

\* C4 witness: a trim has inserted its marker, a summary has been stored and the
\* HUD has just been refreshed, in a conversation that was initialized.
C4_Witness ==
    /\ "e1" \in initialized
    /\ max_conversation_history["e1"] >= 2
    /\ last_op = Op("update_ephemeral", "e1")
    /\ \E i \in 1..Len(Conv("e1")) : IsTruncationMarker(Conv("e1")[i])
    /\ \E c \in summarizer_calls : c.stored
    /\ Conv("e1")[1].is_system_prompt

\* C5 (as claimed): in every reachable state the conversation holds at most
\* max_conversation_history + 2 records, for every max_conversation_history >= 0,
\* also right after a history was loaded.
C5_LengthBound ==
    Len(Conv("e1")) <= max_conversation_history["e1"] + 2

\* C6 (as claimed): an append that brings the count of records after the system
\* prompt to exactly max_conversation_history + 1 leaves the system prompt, one
\* marker and the most recent max_conversation_history / 2 records, in order;
\* an append that keeps the count within max_conversation_history only adds the
\* new record at the end.
C6_TrimAtBoundary ==
    [][ ( /\ "e1" \in initialized
          /\ last_op' = Op("append", "e1")
          /\ next_uid' > next_uid )
        => LET old == Conv("e1")
               new == conversation'[Self("e1")]
               max == max_conversation_history["e1"]
               k == max \div 2
               appended == Append(old, new[Len(new)])
           IN /\ new[Len(new)].uid = next_uid
              /\ Len(old) - 1 = max =>
                    /\ Len(new) = 1 + 1 + k
                    /\ new[1] = old[1]
                    /\ IsTruncationMarker(new[2])
                    /\ SubSeq(new, 3, Len(new))
                          = SubSeq(appended, Len(appended) - k + 1, Len(appended))
              /\ Len(old) - 1 < max => new = appended
      ]_vars

\* C7 (as claimed): when a sweep has completed without error, for every
\* detail_conversation_length >= 0, every record that is not the system prompt,
\* lies before the last detail_conversation_length records and has
\* should_summarize = true is summarized, and neither the system prompt nor a
\* record with should_summarize = false is.
C7_SweepCoversOldRecords ==
    ( /\ last_op = Op("sweep_done", "e1")
      /\ "e1" \in initialized
      /\ detail_conversation_length["e1"] >= 0 )
    => /\ \A i \in OlderThanDetail("e1") :
             (Conv("e1")[i].should_summarize /\ ~Conv("e1")[i].is_system_prompt)
                => Conv("e1")[i].summarized
       /\ \A i \in 1..Len(Conv("e1")) :
             (i = 1 \/ ~Conv("e1")[i].should_summarize) => ~Conv("e1")[i].summarized

\* C8 (as claimed), in the form a finite run refutes: by the end of the sweep that
\* follows, every summarizable record more than detail_conversation_length
\* positions from the end is summarized and its content starts with "[SUMMARY]",
\* whatever the summarizer returned.  Stated for detail_conversation_length >= 1,
\* where the sweep does reach the old records (C7 has the case 0).
C8_SummaryTagged ==
    ( /\ last_op = Op("sweep_done", "e1")
      /\ "e1" \in initialized
      /\ detail_conversation_length["e1"] >= 1 )
    => \A i \in OlderThanDetail("e1") :
          (Conv("e1")[i].should_summarize /\ ~Conv("e1")[i].is_system_prompt)
             => /\ Conv("e1")[i].summarized
                /\ StartsWith(Conv("e1")[i].content, SummaryTag)

\* C9: a sweep that starts right after a completed sweep issues no summarizer
\* call and changes no record; and no summarizer call is ever issued for a record
\* whose summarized flag is set or whose summary was stored before.
C9_SummarizeOnce ==
    [][ /\ ( /\ last_op = Op("sweep_done", "e1")
             /\ last_op'.op \in {"sweep_done", "sweep_call", "sweep_raised"} )
           => /\ last_op'.op = "sweep_done"
              /\ UNCHANGED <<conversation, summarizer_calls>>
        /\ \A c \in summarizer_calls' \ summarizer_calls :
              ~c.was_summarized /\ ~c.again
      ]_vars

\* C9 witness: a sweep has completed after storing a summary that the
\* conversation still shows; a further sweep would start from here.
C9_Witness ==
    /\ last_op = Op("sweep_done", "e1")
    /\ \E c \in summarizer_calls :
          /\ c.stored
          /\ \E i \in 1..Len(Conv("e1")) :
                Conv("e1")[i].uid = c.uid /\ Conv("e1")[i].summarized

\* ------------------------------------------------------------------ two executors

Learnings == {"", "learning_a", "learning_b"}
ExecutionResults == {"result"}

\* list.pop(0)
PopFirst(s) == SubSeq(s, 2, Len(s))

AddLearning_EvictsNewest(list, learning, max) ==
    IF learning = "" \/ (\E i \in 1..Len(list) : list[i] = learning)
    THEN list
    ELSE LET appended == Append(list, learning)
         IN IF Len(appended) > max THEN SubSeq(appended, 1, Len(appended) - 1) ELSE appended

\* The body of add_to_learnings, on the list it is given.
AddLearning(list, learning, max) ==
    IF learning = "" \/ (\E i \in 1..Len(list) : list[i] = learning)
    THEN list
    ELSE LET appended == Append(list, learning)
         IN IF Len(appended) > max THEN PopFirst(appended) ELSE appended

\* add_to_learnings(learning)
AddToLearnings(e, learning) ==
    /\ pc[e] = "idle"
    /\ learnings' = [learnings EXCEPT
                        ![Self(e)] = AddLearning(@, learning, max_learnings_history[e])]
    /\ last_op' = Op("add_learning", e)
    /\ UNCHANGED <<agent_state_ref, conversation, execution_history, next_uid,
                   max_conversation_history, detail_conversation_length, pc,
                   history_to_summarize, initialized, summarizer_calls, model_failures>>
    /\ UNCHANGED otherVars

\* add_to_code_history(execution_result, response, classification)
AddToCodeHistory(e, execution_result) ==
    /\ pc[e] = "idle"
    /\ Len(execution_history[Self(e)]) < MaxResults
    /\ execution_history' = [execution_history EXCEPT ![Self(e)] = Append(@, execution_result)]
    /\ last_op' = Op("add_result", e)
    /\ UNCHANGED <<agent_state_ref, conversation, learnings, next_uid,
                   max_conversation_history, detail_conversation_length, pc,
                   history_to_summarize, initialized, summarizer_calls, model_failures>>
    /\ UNCHANGED otherVars

\* Two executors of one process, both constructed without an agent_state: the
\* default value of the parameter is one AgentState object, built once, when the
\* def statement of __init__ is evaluated, and "self.agent_state = agent_state"
\* stores a reference to it.
InitShare ==
    /\ InitExecutors([e \in Executors |-> DefaultAgentState])
    /\ max_conversation_history = [e \in Executors |-> MaxHist]
    /\ detail_conversation_length = [e \in Executors |-> -1]
    /\ \E n \in 1..MaxLearn : max_learnings_history = [e \in Executors |-> n]
    /\ InitStreams
    /\ disk = <<>>
    /\ InitPipeline(TRUE)

ShareStep(e) ==
    \/ \E h \in LoadableHistories, overwrite \in BOOLEAN :
          InitializeConversationHistory(e, h, overwrite)
    \/ \E r \in AppendableRecords : AppendRecord(e, r)
    \/ \E learning \in Learnings : AddToLearnings(e, learning)
    \/ \E r \in ExecutionResults : AddToCodeHistory(e, r)

NextShare == \E e \in Executors : ShareStep(e)

SpecShare == InitShare /\ [][NextShare]_vars

\* What executor e observes of its agent state.
Observed(e) == <<conversation[Self(e)], learnings[Self(e)], execution_history[Self(e)]>>

NoExplicitAgentState(e) == agent_state_ref[e] = DefaultAgentState

\* C3 (as claimed): when both executors were constructed without an explicit
\* agent_state, an append, a (re-)initialization, an added learning or an added
\* execution result in one of them leaves the conversation, the learnings and
\* the execution history that the other one observes unchanged.
C3_IndependentAgentState ==
    [][ \A e \in Executors, other \in Executors :
          ( /\ other # e
            /\ NoExplicitAgentState(e) /\ NoExplicitAgentState(other)
            /\ last_op'.e = e
            /\ last_op'.op \in {"append", "initialize", "add_learning", "add_result"} )
          => Observed(other)' = Observed(other)
      ]_vars

\* ------------------------------------------------------------------ sandbox executions

NoOutput == "[No output]"

\* stdout.getvalue() or "[No output]"
GetValueOrNone(stream) == IF stream.value = <<>> THEN <<NoOutput>> ELSE stream.value

\* The record _capture_and_record_output appends.
OutputRecord(output) ==
    ConversationRecord("user", <<"outputs">> \o output, TRUE, FALSE, FALSE, TRUE)

\* Executions that are between their redirect and their restore.
Running == {e \in Executors : run_pc[e] # "idle"}

\* print(...) in a snippet writes to whatever sys.stdout is at that moment; a
\* closed StringIO raises ValueError and the console is not a capture.
PrintRaises(streams, target) == target # Console /\ streams[target].closed

PrintTo(streams, target, text) ==
    IF target = Console \/ PrintRaises(streams, target)
    THEN streams
    ELSE [streams EXCEPT ![target].value = Append(@, text)]

\* _execute_with_output of a snippet without "async def" or "await": redirect,
\* exec, capture and restore run without a suspension point.
ExecuteSync(e) ==
    /\ run_pc[e] = "idle"
    /\ pc[e] = "idle"
    /\ next_uid + Cardinality(Running) + 1 <= MaxRecords
    /\ LET streams == PrintTo([new_stdout EXCEPT ![e] = StringIO], e, e)
           output == GetValueOrNone(streams[e])
           st == AppendToHistory(Store(conversation[Self(e)], next_uid),
                                 OutputRecord(output), max_conversation_history[e])
       IN /\ captured' = [captured EXCEPT ![e] = output]
          /\ conversation' = [conversation EXCEPT ![Self(e)] = st.conv]
          /\ next_uid' = st.next
          /\ new_stdout' = [streams EXCEPT ![e] = [closed |-> TRUE, value |-> <<>>]]
    /\ last_op' = Op("run_done", e)
    /\ UNCHANGED <<sys_stdout, old_stdout, run_pc>>
    /\ UNCHANGED <<agent_state_ref, learnings, execution_history, max_conversation_history,
                   detail_conversation_length, pc, history_to_summarize, initialized,
                   summarizer_calls, model_failures, max_learnings_history>>
    /\ UNCHANGED <<actVars, sendVars, verdictVars, disk, namespaceVars, persistence, apartVars>>

\* _execute_with_output of an async snippet, up to the await of its coroutine:
\* "old_stdout = sys.stdout; new_stdout = io.StringIO(); sys.stdout = new_stdout",
\* then the snippet runs to its first suspension and prints on the way.
ExecuteAsyncStart(e) ==
    /\ run_pc[e] = "idle"
    /\ pc[e] = "idle"
    /\ next_uid + Cardinality(Running) + 1 <= MaxRecords
    /\ old_stdout' = [old_stdout EXCEPT ![e] = sys_stdout]
    /\ sys_stdout' = e
    /\ new_stdout' = PrintTo([new_stdout EXCEPT ![e] = StringIO], e, e)
    /\ run_pc' = [run_pc EXCEPT ![e] = "await"]
    /\ last_op' = Op("run_start", e)
    /\ UNCHANGED captured
    /\ UNCHANGED <<convVars_but_last_op, max_learnings_history>>
    /\ UNCHANGED <<actVars, sendVars, verdictVars, disk, namespaceVars, persistence, apartVars>>

\* The coroutine is resumed: the snippet prints again and ends, the output is
\* captured and recorded, and the finally block restores sys.stdout to what this
\* execution saved and closes its buffer.
ExecuteAsyncResume(e) ==
    /\ run_pc[e] = "await"
    /\ LET raises == PrintRaises(new_stdout, sys_stdout)
           streams == PrintTo(new_stdout, sys_stdout, e)
           output == GetValueOrNone(streams[e])
           st == AppendToHistory(Store(conversation[Self(e)], next_uid),
                                 OutputRecord(output), max_conversation_history[e])
       IN /\ captured' = [captured EXCEPT ![e] = output]
          /\ conversation' = [conversation EXCEPT ![Self(e)] = st.conv]
          /\ next_uid' = st.next
          /\ new_stdout' = [streams EXCEPT ![e] = [closed |-> TRUE, value |-> <<>>]]
          /\ last_op' = Op(IF raises THEN "run_error" ELSE "run_done", e)
    /\ sys_stdout' = old_stdout[e]
    /\ run_pc' = [run_pc EXCEPT ![e] = "idle"]
    /\ UNCHANGED old_stdout
    /\ UNCHANGED <<agent_state_ref, learnings, execution_history, max_conversation_history,
                   detail_conversation_length, pc, history_to_summarize, initialized,
                   summarizer_calls, model_failures, max_learnings_history>>
    /\ UNCHANGED <<actVars, sendVars, verdictVars, disk, namespaceVars, persistence, apartVars>>

\* Two executors of one process, each with an agent state of its own.
InitSandbox ==
    /\ InitExecutors([e \in Executors |-> e])
    /\ max_conversation_history = [e \in Executors |-> MaxHist]
    /\ detail_conversation_length = [e \in Executors |-> -1]
    /\ max_learnings_history = [e \in Executors |-> DefaultMaxLearningsHistory]
    /\ InitStreams
    /\ disk = <<>>
    /\ InitPipeline(TRUE)

SandboxStep(e) ==
    \/ InitializeConversationHistory(e, <<>>, FALSE)
    \/ ExecuteSync(e)
    \/ ExecuteAsyncStart(e)
    \/ ExecuteAsyncResume(e)

NextSandbox == \E e \in Executors : SandboxStep(e)

SpecSandbox == InitSandbox /\ [][NextSandbox]_vars

\* C2 (as claimed): the stdout text an execution captured and recorded holds
\* no output produced by the execution of another executor, also when the two
\* executions overlapped.
C2_CapturesNotPolluted ==
    \A e \in Executors : \A i \in 1..Len(captured[e]) :
        captured[e][i] \notin Executors \ {e}

\* ------------------------------------------------------------------ the action pipeline

\* execute_code's default for max_retries; check_response_safety's default for
\* conversation_length.
DefaultMaxRetries == 1
ConversationLength == 8

ActionTypes == {"CODE", "WRITE", "EDIT", "READ", "DONE", "ASK", "BYE"}

\* What the safety model may answer, and what the user may type at the prompt.
AuditReplies ==
    { <<>>, <<"[SAFE]">>, <<"[UNSAFE]">>, <<"[OVERRIDE]">>, <<"[CONVERSATION_CONFIRM]">>,
      <<"[unsafe]", "[OVERRIDE]">> }
UserAnswers == {"y", "Y", "n", "yes", ""}

\* str.lower(), on the tokens above
Lower(token) ==
    CASE token = "[SAFE]" -> "[safe]"
      [] token \in {"[UNSAFE]", "[UnSafe]"} -> "[unsafe]"
      [] token \in {"[OVERRIDE]", "[Override]"} -> "[override]"
      [] token = "[CONVERSATION_CONFIRM]" -> "[conversation_confirm]"
      [] token = "Y" -> "y"
      [] OTHER -> token

\* "tag in content.lower()"
InLower(tag, content) == \E i \in 1..Len(content) : Lower(content[i]) = tag

\* A parser that looks for the unsafe marker first.
get_confirm_safety_result_UnsafeFirst(content) ==
    IF InLower("[unsafe]", content) THEN "UNSAFE"
    ELSE IF InLower("[override]", content) THEN "OVERRIDE"
    ELSE "SAFE"

get_confirm_safety_result(content) ==
    IF content = <<>> THEN "SAFE"
    ELSE IF InLower("[override]", content) THEN "OVERRIDE"
    ELSE IF InLower("[unsafe]", content) THEN "UNSAFE"
    ELSE "SAFE"

\* prompt_for_safety's verdict
\* A prompt that takes every answer but "y" for a go-ahead.
PromptForSafety_Inverted(confirm) == IF Lower(confirm) = "y" THEN "UNSAFE" ELSE "SAFE"

PromptForSafety(confirm) == IF Lower(confirm) = "y" THEN "SAFE" ELSE "UNSAFE"

\* check_and_confirm_safety's result, from the auditor's reply and the user's answer
SafetyResult(e, content, confirm) ==
    LET checked == get_confirm_safety_result(content)
    IN IF checked = "UNSAFE" /\ can_prompt_user[e] THEN PromptForSafety(confirm) ELSE checked

\* What handle_safety_result returns: a result that ends the action, or None
\* (NoResult here) to let it proceed.  The risk-summary branch awaits a model
\* call first; RiskSummaryNeeded tells that branch.
RiskSummaryNeeded(e, safety_result) == safety_result = "UNSAFE" /\ ~can_prompt_user[e]

\* The texts of the results of handle_safety_result.
CanceledMessage == <<"Code execution canceled by user">>
safety_summary_content == <<"risk_summary">>

\* A handler that gives the blocked action the fixed confirmation text.
HandleSafetyResult_FixedMessage(e, safety_result) ==
    IF safety_result = "UNSAFE" /\ can_prompt_user[e]
    THEN CodeExecutionResult("CANCELLED", CanceledMessage, "SYSTEM", "NONE")
    ELSE IF safety_result \in {"UNSAFE", "CONVERSATION_CONFIRM"}
    THEN CodeExecutionResult("CONFIRMATION_REQUIRED", <<"requires_confirmation">>,
                             "SECURITY_CHECK", "NONE")
    ELSE NoResult

HandleSafetyResult(e, safety_result) ==
    IF safety_result = "UNSAFE"
    THEN IF can_prompt_user[e]
         THEN CodeExecutionResult("CANCELLED", CanceledMessage, "SYSTEM", "NONE")
         ELSE CodeExecutionResult("CONFIRMATION_REQUIRED", safety_summary_content,
                                  "SECURITY_CHECK", "NONE")
    ELSE IF safety_result = "CONVERSATION_CONFIRM"
    THEN CodeExecutionResult("CONFIRMATION_REQUIRED", <<"requires_confirmation">>,
                             "SECURITY_CHECK", "NONE")
    ELSE NoResult

\* The records the pipeline appends.
ErrorRecord ==
    ConversationRecord("user", <<"action_error">>, TRUE, FALSE, FALSE, DefaultShouldCache)
DenialRecord ==
    ConversationRecord("user", <<"denied_by_auditor">>, DefaultShouldSummarize, FALSE, FALSE,
                       DefaultShouldCache)
RefusalRecord ==
    ConversationRecord("user", <<"dangerous_operation">>, DefaultShouldSummarize, FALSE, FALSE,
                       DefaultShouldCache)
RiskSummaryRecord ==
    ConversationRecord("assistant", safety_summary_content, DefaultShouldSummarize, FALSE, FALSE,
                       DefaultShouldCache)
InitialErrorRecord(error) ==
    ConversationRecord("user", <<"initial_error", error>>, TRUE, FALSE, FALSE,
                       DefaultShouldCache)
RetryErrorRecord(error) ==
    ConversationRecord("user", <<"retry_error", error>>, TRUE, FALSE, FALSE,
                       DefaultShouldCache)
CorrectedRecord ==
    ConversationRecord("assistant", <<"response_json">>, TRUE, FALSE, FALSE, DefaultShouldCache)
FileRecord(action) ==
    ConversationRecord("user", <<"file", action>>, TRUE, FALSE, FALSE,
                       IF action = "WRITE" THEN DefaultShouldCache ELSE TRUE)

\* The messages of the two kinds of safety check.
SafetyPromptRecord ==
    ConversationRecord("system", <<"safety_prompt">>, DefaultShouldSummarize, FALSE, TRUE, TRUE)
SafetyUserRecord ==
    ConversationRecord("user", <<"response_json">>, DefaultShouldSummarize, FALSE, FALSE,
                       DefaultShouldCache)
TruncatedNoteRecord ==
    ConversationRecord("user", <<"conversation_truncated">>, DefaultShouldSummarize, FALSE,
                       FALSE, DefaultShouldCache)

safety_history == <<SafetyPromptRecord, SafetyUserRecord>>

safety_check_conversation(conv) ==
    <<SafetyPromptRecord>>
    \o (IF Len(conv) + 1 > ConversationLength
        THEN <<TruncatedNoteRecord>> \o PySliceFrom(conv, -ConversationLength)
        ELSE PySliceFrom(conv, 1))
    \o <<SafetyUserRecord>>

Mine(e) == Store(conversation[Self(e)], next_uid)

Push(e, st, record) == AppendToHistory(st, record, max_conversation_history[e])

Commit(e, st) ==
    /\ conversation' = [conversation EXCEPT ![Self(e)] = st.conv]
    /\ next_uid' = st.next

EphemeralUids(conv) == {conv[i].uid : i \in {j \in 1..Len(conv) : conv[j].ephemeral}}

\* invoke_model(sent) is dispatched while the conversation is conv.
InvokeModel(kind, sent, conv) ==
    /\ last_call' = [kind |-> kind,
                     stale_sent |-> \E i \in 1..Len(sent) :
                                       /\ sent[i].ephemeral
                                       /\ sent[i].uid \in stale_ephemerals]
    /\ stale_ephemerals' = stale_ephemerals \cup EphemeralUids(conv)

\* The text perform_action looks for in the result of a CODE action, and its
\* message when there is no result.
CancelledText == "code execution cancelled by user"
ActionCompleted == <<"Action completed">>

\* "text in message", a message being the list of its parts.
InText(text, message) == \E i \in 1..Len(message) : message[i] = text

\* The end of perform_action.  A CODE action whose result says it was cancelled
\* returns CANCELLED at once; otherwise add_to_code_history when there is a
\* result, the step counter, then the sweep, which is left pending for
\* SummarizeOldSteps, and the return of SUCCESS.
EndOfAction(e, result) ==
    /\ IF frame[e].response.action = "CODE" /\ InText(CancelledText, result.message)
       THEN /\ returned' = [returned EXCEPT ![e] = ProcessResponseOutput("CANCELLED",
                                                                     <<CancelledText>>)]
            /\ UNCHANGED <<execution_history, step_counter, pc>>
       ELSE /\ execution_history' =
                  IF result = NoResult THEN execution_history
                  ELSE [execution_history EXCEPT ![Self(e)] = Append(@, result)]
            /\ step_counter' = [step_counter EXCEPT ![e] = @ + 1]
            /\ pc' = [pc EXCEPT ![e] = "sweep_pending"]
            /\ returned' = [returned EXCEPT ![e] =
                             ProcessResponseOutput("SUCCESS",
                                                   IF result = NoResult THEN ActionCompleted
                                                   ELSE result.message)]
    /\ act_pc' = [act_pc EXCEPT ![e] = "idle"]
    /\ frame' = [frame EXCEPT ![e] = NoFrame]

\* execute_code returns: to perform_action, or to the code that called it.
EndOfExecuteCode(e, result) ==
    /\ execute_code_result' = [execute_code_result EXCEPT ![e] = result]
    /\ IF frame[e].caller = "perform_action"
       THEN EndOfAction(e, result)
       ELSE /\ act_pc' = [act_pc EXCEPT ![e] = "idle"]
            /\ frame' = [frame EXCEPT ![e] = NoFrame]
            /\ UNCHANGED <<execution_history, pc, returnVars>>

Effect(response, what) == [rid |-> response.rid, effect |-> what]

configVars == <<sendVars, verdictVars, agent_state_ref, max_conversation_history,
                detail_conversation_length, history_to_summarize, initialized,
                summarizer_calls, model_failures, max_learnings_history,
                can_prompt_user, interrupted, sys_stdout, old_stdout, new_stdout, run_pc>>

fixedVars == <<configVars, disk, namespaceVars, apartVars>>

staticVars == <<fixedVars, persistence, learnings>>

\* The same and what execute_code returned: for the steps that do not end it.
quietVars == <<staticVars, execute_code_result>>

\* perform_action(response, classification), up to its first await of a model:
\* DONE, BYE and ASK only enter the code history; a response without the field
\* its action needs raises ValueError, which the except clause records; every
\* other response goes to check_and_confirm_safety, whose first statement that
\* suspends is the safety model call.
IsFinalAction_NotAsk(action) == action \in {"DONE", "BYE"}
IsFinalAction(action) == action \in {"DONE", "BYE", "ASK"}

PerformActionCall(e, action, complete) ==
    /\ act_pc[e] = "idle"
    /\ pc[e] = "idle"
    /\ next_rid <= MaxResponses
    /\ next_uid + 1 <= MaxActRecords
    /\ LET response == [rid |-> next_rid, action |-> action, complete |-> complete]
           conv == conversation[Self(e)]
       IN IF IsFinalAction(action)
          THEN /\ execution_history' =
                     [execution_history EXCEPT
                         ![Self(e)] = Append(@, CodeExecutionResult("SUCCESS", <<"response">>, "ACTION", action))]
               /\ returned' = [returned EXCEPT ![e] =
                                ProcessResponseOutput("SUCCESS", ActionCompleted)]
               /\ UNCHANGED <<conversation, next_uid, pc, act_pc, frame, last_call,
                              stale_ephemerals, step_counter>>
          ELSE IF ~complete
          THEN /\ Commit(e, Push(e, Mine(e), ErrorRecord))
               /\ EndOfAction(e, NoResult)
               /\ UNCHANGED <<last_call, stale_ephemerals>>
          ELSE /\ frame' = [frame EXCEPT ![e] =
                               [response |-> response, current_response |-> response,
                                attempt |-> 0, max_retries |-> 0,
                                caller |-> "perform_action", final_error |-> <<>>]]
               /\ act_pc' = [act_pc EXCEPT ![e] = "audit"]
               /\ IF can_prompt_user[e]
                  THEN InvokeModel("safety_check", safety_history, conv)
                  ELSE InvokeModel("conversation_check", safety_check_conversation(conv), conv)
               /\ UNCHANGED <<conversation, next_uid, execution_history, pc, returnVars>>
    /\ next_rid' = next_rid + 1
    /\ last_op' = Op("perform_action", e)
    /\ UNCHANGED <<fixedVars, execute_code_result, captured, approved, effects>>

\* perform_action called on its own.
PerformAction(e, action, complete) ==
    /\ PerformActionCall(e, action, complete)
    /\ UNCHANGED <<learnings, persistence>>

\* The safety check lets the response through (SAFE, OVERRIDE, or "y" at the
\* prompt): handle_safety_result returns None.  A CODE response enters
\* execute_code(response); a WRITE, EDIT or READ response does its file
\* operation, which records its outcome or raises.
AuditApproves(e, content, confirm, raises) ==
    /\ act_pc[e] = "audit"
    /\ next_uid + 1 <= MaxActRecords
    /\ HandleSafetyResult(e, SafetyResult(e, content, confirm)) = NoResult
    /\ LET response == frame[e].response
       IN /\ approved' = approved \cup {response.rid}
          /\ IF response.action = "CODE"
             THEN /\ frame' = [frame EXCEPT ![e].max_retries = DefaultMaxRetries]
                  /\ act_pc' = [act_pc EXCEPT ![e] = "run"]
                  /\ ~raises
                  /\ UNCHANGED <<conversation, next_uid, execution_history, pc, effects,
                                 returnVars>>
             ELSE /\ effects' = effects \cup {Effect(response, response.action)}
                  /\ IF raises
                     THEN /\ Commit(e, Push(e, Mine(e), ErrorRecord))
                          /\ EndOfAction(e, NoResult)
                     ELSE /\ Commit(e, Push(e, Mine(e), FileRecord(response.action)))
                          /\ EndOfAction(e, CodeExecutionResult("SUCCESS", <<"file", "done">>, "ACTION",
                                                                response.action))
    /\ last_op' = Op("audit_approved", e)
    /\ UNCHANGED <<quietVars, captured, next_rid, last_call, stale_ephemerals>>

\* The auditor said UNSAFE and the user, prompted, did not answer "y":
\* prompt_for_safety records the refusal and the action is cancelled.
AuditRefused(e, content, confirm) ==
    /\ act_pc[e] = "audit"
    /\ next_uid + 1 <= MaxActRecords
    /\ can_prompt_user[e]
    /\ SafetyResult(e, content, confirm) = "UNSAFE"
    /\ Commit(e, Push(e, Mine(e), RefusalRecord))
    /\ EndOfAction(e, HandleSafetyResult(e, "UNSAFE"))
    /\ last_op' = Op("audit_refused", e)
    /\ UNCHANGED <<quietVars, captured, next_rid, approved, effects, last_call,
                   stale_ephemerals>>

\* No user to prompt and the auditor said UNSAFE: check_response_safety records
\* the denial, and handle_safety_result asks the agent's model for a summary of
\* the risk with "invoke_model(self.agent_state.conversation)".
AuditDenied(e, content) ==
    /\ act_pc[e] = "audit"
    /\ next_uid + 1 <= MaxActRecords
    /\ RiskSummaryNeeded(e, get_confirm_safety_result(content))
    /\ LET st == Push(e, Mine(e), DenialRecord)
       IN /\ Commit(e, st)
          /\ InvokeModel("risk_summary", st.conv, st.conv)
    /\ act_pc' = [act_pc EXCEPT ![e] = "risk_summary"]
    /\ last_op' = Op("audit_denied", e)
    /\ UNCHANGED <<quietVars, captured, next_rid, approved, effects, frame,
                   execution_history, pc, returnVars>>

\* A safety check whose failure lets the response through: its effect happens.
AuditRaises_RunsAnyway(e) ==
    /\ act_pc[e] = "audit"
    /\ next_uid + 1 <= MaxActRecords
    /\ effects' = effects \cup {Effect(frame[e].response, frame[e].response.action)}
    /\ IF can_prompt_user[e]
       THEN /\ Commit(e, Push(e, Mine(e), ErrorRecord))
            /\ EndOfAction(e, NoResult)
            /\ UNCHANGED <<last_call, stale_ephemerals>>
       ELSE /\ InvokeModel("risk_summary", conversation[Self(e)], conversation[Self(e)])
            /\ act_pc' = [act_pc EXCEPT ![e] = "risk_summary"]
            /\ UNCHANGED <<conversation, next_uid, frame, execution_history, pc, returnVars>>
    /\ last_op' = Op("audit_raised", e)
    /\ UNCHANGED <<quietVars, captured, next_rid, approved>>

\* The safety model call raises.  With a user to prompt the exception reaches
\* perform_action's except clause; without, check_response_safety returns UNSAFE
\* and handle_safety_result asks for the risk summary.
AuditRaises(e) ==
    /\ act_pc[e] = "audit"
    /\ next_uid + 1 <= MaxActRecords
    /\ IF can_prompt_user[e]
       THEN /\ Commit(e, Push(e, Mine(e), ErrorRecord))
            /\ EndOfAction(e, NoResult)
            /\ UNCHANGED <<last_call, stale_ephemerals>>
       ELSE /\ InvokeModel("risk_summary", conversation[Self(e)], conversation[Self(e)])
            /\ act_pc' = [act_pc EXCEPT ![e] = "risk_summary"]
            /\ UNCHANGED <<conversation, next_uid, frame, execution_history, pc, returnVars>>
    /\ last_op' = Op("audit_raised", e)
    /\ UNCHANGED <<quietVars, captured, next_rid, approved, effects>>

\* The risk summary arrives: it is appended and the action ends with
\* CONFIRMATION_REQUIRED.
RiskSummaryReply(e) ==
    /\ act_pc[e] = "risk_summary"
    /\ next_uid + 1 <= MaxActRecords
    /\ Commit(e, Push(e, Mine(e), RiskSummaryRecord))
    /\ EndOfAction(e, HandleSafetyResult(e, "UNSAFE"))
    /\ last_op' = Op("risk_summary", e)
    /\ UNCHANGED <<quietVars, captured, next_rid, approved, effects, last_call,
                   stale_ephemerals>>

\* The risk-summary call raises: perform_action's except clause records it.
RiskSummaryRaises(e) ==
    /\ act_pc[e] = "risk_summary"
    /\ next_uid + 1 <= MaxActRecords
    /\ Commit(e, Push(e, Mine(e), ErrorRecord))
    /\ EndOfAction(e, NoResult)
    /\ last_op' = Op("risk_summary_raised", e)
    /\ UNCHANGED <<quietVars, captured, next_rid, approved, effects, last_call,
                   stale_ephemerals>>

\* execute_code(response, max_retries) called by code that had the response
\* audited and let through.
ExecuteCode(e, max_retries) ==
    /\ act_pc[e] = "idle"
    /\ pc[e] = "idle"
    /\ next_rid <= MaxResponses
    /\ LET response == [rid |-> next_rid, action |-> "CODE", complete |-> TRUE]
       IN /\ frame' = [frame EXCEPT ![e] =
                          [response |-> response, current_response |-> response,
                           attempt |-> 0, max_retries |-> max_retries, caller |-> "direct",
                           final_error |-> <<>>]]
          /\ approved' = approved \cup {response.rid}
    /\ next_rid' = next_rid + 1
    /\ act_pc' = [act_pc EXCEPT ![e] = "run"]
    /\ last_op' = Op("execute_code", e)
    /\ UNCHANGED <<quietVars, captured, conversation, next_uid, execution_history, pc,
                   effects, last_call, stale_ephemerals, returnVars>>

\* What one _execute_with_output(current_response) of the loop does in either
\* outcome: the snippet runs in the sandbox and its output is recorded.
Executed(e) ==
    /\ effects' = effects \cup {Effect(frame[e].current_response, "CODE")}
    /\ captured' = [captured EXCEPT ![e] = <<e>>]

AfterExecution(e) == Push(e, Mine(e), OutputRecord(<<e>>))

\* The snippet ran without error: execute_code returns the SUCCESS result.
RunSucceeds(e) ==
    /\ act_pc[e] = "run"
    /\ next_uid + 1 <= MaxActRecords
    /\ Executed(e)
    /\ Commit(e, AfterExecution(e))
    /\ EndOfExecuteCode(e, CodeExecutionResult("SUCCESS", <<"response">>, "ACTION", "CODE"))
    /\ last_op' = Op("run_done", e)
    /\ UNCHANGED <<staticVars, next_rid, approved, last_call, stale_ephemerals>>

\* The error a response's snippet raises when it fails.
ErrorOf(response) == <<"error", response.rid>>

\* An execute_code that reports the first error met.
FinalError_First(e) ==
    IF frame[e].final_error = <<>> THEN ErrorOf(frame[e].current_response)
    ELSE frame[e].final_error

\* "final_error = error" in the except clause of the loop.
FinalError(e) == ErrorOf(frame[e].current_response)

\* The result after the loop.
ErrorResult(final_error) ==
    [CodeExecutionResult("ERROR", <<"response">>, "ACTION", "CODE")
        EXCEPT !.stderr = final_error]

\* The except clause of the loop: the error is recorded and the HUD refreshed.
AfterError(e) ==
    LET error == ErrorOf(frame[e].current_response)
    IN UpdateEphemeralMessages(
           Push(e, AfterExecution(e),
                IF frame[e].attempt = 0 THEN InitialErrorRecord(error)
                ELSE RetryErrorRecord(error)),
           max_conversation_history[e])

\* The snippet raised and "attempt < max_retries - 1": _get_corrected_code asks
\* the agent's model, with the conversation, for a corrected response.
RunFailsAndRetries(e) ==
    /\ act_pc[e] = "run"
    /\ next_uid + 3 <= MaxActRecords
    /\ frame[e].attempt < frame[e].max_retries - 1
    /\ Executed(e)
    /\ LET st == AfterError(e)
       IN /\ Commit(e, st)
          /\ InvokeModel("correction", st.conv, st.conv)
    /\ frame' = [frame EXCEPT ![e].final_error = FinalError(e)]
    /\ act_pc' = [act_pc EXCEPT ![e] = "correct"]
    /\ last_op' = Op("run_error", e)
    /\ UNCHANGED <<quietVars, next_rid, approved, execution_history, pc, returnVars>>

\* The snippet raised on the last attempt: the loop ends with the ERROR result.
RunFailsForGood(e) ==
    /\ act_pc[e] = "run"
    /\ next_uid + 3 <= MaxActRecords
    /\ ~(frame[e].attempt < frame[e].max_retries - 1)
    /\ Executed(e)
    /\ Commit(e, AfterError(e))
    /\ EndOfExecuteCode(e, ErrorResult(FinalError(e)))
    /\ last_op' = Op("run_error", e)
    /\ UNCHANGED <<staticVars, next_rid, approved, last_call, stale_ephemerals>>

\* The model's corrected response arrives: it is appended to the conversation,
\* becomes current_response, and the loop goes on to run its code.
CorrectedCode(e, action, complete) ==
    /\ act_pc[e] = "correct"
    /\ next_uid + 1 <= MaxActRecords
    /\ next_rid <= MaxResponses
    /\ Commit(e, Push(e, Mine(e), CorrectedRecord))
    /\ frame' = [frame EXCEPT
                    ![e].current_response =
                        [rid |-> next_rid, action |-> action, complete |-> complete],
                    ![e].attempt = @ + 1]
    /\ next_rid' = next_rid + 1
    /\ act_pc' = [act_pc EXCEPT ![e] = "run"]
    /\ last_op' = Op("corrected", e)
    /\ UNCHANGED <<quietVars, captured, approved, effects, execution_history, pc,
                   last_call, stale_ephemerals, returnVars>>

\* _get_corrected_code raises (the model call, or the parse of its reply): break.
CorrectionRaises(e) ==
    /\ act_pc[e] = "correct"
    /\ EndOfExecuteCode(e, ErrorResult(frame[e].final_error))
    /\ last_op' = Op("correction_raised", e)
    /\ UNCHANGED <<staticVars, captured, conversation, next_uid, next_rid, approved,
                   effects, last_call, stale_ephemerals>>

\* One executor, with or without a user to prompt; the sweep keeps every record
\* in full detail (detail_conversation_length = -1).
InitAct ==
    /\ InitExecutors([e \in Executors |-> e])
    /\ max_conversation_history = [e \in Executors |-> MaxHist]
    /\ detail_conversation_length = [e \in Executors |-> -1]
    /\ max_learnings_history = [e \in Executors |-> DefaultMaxLearningsHistory]
    /\ InitStreams
    /\ disk = <<>>
    /\ \E prompting \in BOOLEAN : InitPipeline(prompting)

ActStep(e) ==
    \/ InitializeConversationHistory(e, <<>>, FALSE)
    \/ RefreshEphemeral(e)
    \/ \E action \in ActionTypes, complete \in BOOLEAN : PerformAction(e, action, complete)
    \/ \E content \in AuditReplies, confirm \in UserAnswers, raises \in BOOLEAN :
          AuditApproves(e, content, confirm, raises)
    \/ \E content \in AuditReplies, confirm \in UserAnswers : AuditRefused(e, content, confirm)
    \/ \E content \in AuditReplies : AuditDenied(e, content)
    \/ AuditRaises(e)
    \/ RiskSummaryReply(e)
    \/ RiskSummaryRaises(e)
    \/ \E max_retries \in 1..MaxRetries : ExecuteCode(e, max_retries)
    \/ RunSucceeds(e)
    \/ RunFailsAndRetries(e)
    \/ RunFailsForGood(e)
    \/ \E action \in {"CODE", "WRITE"} : CorrectedCode(e, action, TRUE)
    \/ CorrectionRaises(e)
    \/ SummarizeOldSteps(e)

NextAct == ActStep("e1")

SpecAct == InitAct /\ [][NextAct]_vars

\* C1 (as claimed): every side effect performed (a sandbox run of a snippet, a
\* file write, edit or read) is the effect of a response that a safety audit
\* let through (SAFE or OVERRIDE) or the user confirmed with "y"; this for
\* every max_retries of execute_code, so also for a corrected snippet.
C1_EffectsAudited ==
    \A f \in effects : f.rid \in approved

\* C10 (as claimed), its last clause: no model call that carries the
\* conversation or a tail of it (the code-correction re-prompt, the
\* conversation-confirm safety check, the risk-summary call) sends an ephemeral
\* record that was in the conversation at an earlier model call.
C10_NoStaleEphemeralSent ==
    last_call.kind \in {"correction", "conversation_check", "risk_summary"}
        => ~last_call.stale_sent

\* ------------------------------------------------------------------ claims: HUD refresh

\* C11 (as claimed): update_ephemeral_messages called right after
\* update_ephemeral_messages leaves the conversation it found (the same records
\* in the same order, the HUD being a new object with the same text), with
\* exactly one ephemeral record, placed last, for every max_conversation_history.
C11_UpdateEphemeralIdempotent ==
    [][ ( /\ last_op = Op("update_ephemeral", "e1")
          /\ last_op' = Op("update_ephemeral", "e1")
          /\ next_uid' > next_uid )
        => LET old == Conv("e1")
               new == conversation'[Self("e1")]
           IN /\ Len(new) = Len(old)
              /\ \A i \in 1..Len(new) : [new[i] EXCEPT !.uid = 0] = [old[i] EXCEPT !.uid = 0]
              /\ \A i \in 1..Len(new) : new[i].ephemeral <=> i = Len(new)
      ]_vars

\* ------------------------------------------------------------------ outgoing messages

\* "Only 4 cache checkpoints allowed"
MaxCacheCheckpoints == 4

\* Records a caller may hand to invoke_model: with or without content, to be
\* cached or not.
MessageRecords ==
    { ConversationRecord("user", content, DefaultShouldSummarize, FALSE, FALSE, should_cache) :
        content \in {<<>>, <<"text">>}, should_cache \in BOOLEAN }

\* Conversations check_response_safety may find: the system prompt, then up to
\* MaxTail user and assistant records.
AuditedConversations ==
    { [i \in 1..(Len(tail) + 1) |->
          New(IF i = 1 THEN SystemPromptRecord(DefaultShouldCache) ELSE tail[i - 1], i)] :
        tail \in SeqsUpTo(AppendableRecords, MaxTail) }

RECURSIVE CacheWalk(_, _, _, _)
\* "for idx, msg in reversed(list(enumerate(messages_list))): if
\* messages[idx].should_cache: ...": idx is a position of messages_list and is
\* used as a position of the input list.
CacheWalk(list, records, idx, cache_count) ==
    IF idx = 0 THEN list
    ELSE IF records[idx].should_cache
    THEN LET annotated == [list EXCEPT ![idx].cache_control = TRUE]
         IN IF cache_count + 1 >= MaxCacheCheckpoints
            THEN annotated
            ELSE CacheWalk(annotated, records, idx - 1, cache_count + 1)
    ELSE CacheWalk(list, records, idx - 1, cache_count)

\* The messages_list that _convert_and_stream builds: one message per record
\* with content, with the record's role (field record: which input record the
\* message was made from), then the cache annotations.
ConvertMessages(records, manual) ==
    LET kept == SelectSeq([i \in 1..Len(records) |-> i], LAMBDA i : records[i].content # <<>>)
        list == [j \in 1..Len(kept) |->
                    [role |-> records[kept[j]].role, text |-> records[kept[j]].content,
                     cache_control |-> FALSE, record |-> kept[j]]]
    IN IF manual THEN CacheWalk(list, records, Len(list), 0) ELSE list

\* invoke_model(messages) for a list a caller built.
ConvertAndStream(e) ==
    /\ last_op.op = "construct"
    /\ conversation[Self(e)] = <<>>
    /\ messages_list' = ConvertMessages(messages, should_manual_cache_control)
    /\ last_op' = Op("invoke_model", e)
    /\ UNCHANGED <<convVars_but_last_op, max_learnings_history, sandboxVars, actVars,
                   verdictVars, disk, namespaceVars, persistence, apartVars, messages, should_manual_cache_control, invoke>>

\* check_response_safety(response, prompt_user=False) up to its model call:
\* the transcript is built from the conversation and handed to invoke_model.
ConversationCheck(e) ==
    /\ last_op.op = "construct"
    /\ messages = <<>>
    /\ messages' = safety_check_conversation(conversation[Self(e)])
    /\ messages_list' = ConvertMessages(messages', should_manual_cache_control)
    /\ last_op' = Op("conversation_check", e)
    /\ UNCHANGED <<convVars_but_last_op, max_learnings_history, sandboxVars, actVars,
                   verdictVars, disk, namespaceVars, persistence, apartVars, should_manual_cache_control, invoke>>

\* Either a caller holds a record list for invoke_model, or the executor holds
\* a conversation and is about to audit a response against it.
InitSend ==
    /\ agent_state_ref = [e \in Executors |-> e]
    /\ \E ms \in SeqsUpTo(MessageRecords, MaxMessages), conv \in AuditedConversations \cup {<<>>} :
          /\ ms = <<>> \/ conv = <<>>
          /\ messages = ms
          /\ conversation = [s \in StateIds |-> IF s = "e1" THEN conv ELSE <<>>]
          /\ next_uid = Len(conv) + 1
          /\ initialized = IF conv = <<>> THEN {} ELSE {"e1"}
    /\ messages_list = <<>>
    /\ should_manual_cache_control \in BOOLEAN
    /\ invoke = NoInvoke
    /\ learnings = [s \in StateIds |-> <<>>]
    /\ execution_history = [s \in StateIds |-> <<>>]
    /\ max_conversation_history = [e \in Executors |-> MaxTail]
    /\ detail_conversation_length = [e \in Executors |-> -1]
    /\ max_learnings_history = [e \in Executors |-> DefaultMaxLearningsHistory]
    /\ pc = [e \in Executors |-> "idle"]
    /\ history_to_summarize = [e \in Executors |-> <<>>]
    /\ last_op = Op("construct", "e1")
    /\ summarizer_calls = {}
    /\ model_failures = 0
    /\ InitStreams
    /\ disk = <<>>
    /\ can_prompt_user = [e \in Executors |-> FALSE]
    /\ act_pc = [e \in Executors |-> "idle"]
    /\ frame = [e \in Executors |-> NoFrame]
    /\ next_rid = 1
    /\ approved = {}
    /\ effects = {}
    /\ stale_ephemerals = {}
    /\ last_call = NoCall
    /\ interrupted = [e \in Executors |-> FALSE]
    /\ step_counter = [e \in Executors |-> 1]
    /\ returned = [e \in Executors |-> NotReturned]
    /\ execute_code_result = [e \in Executors |-> NoResult]

NextSend == ConvertAndStream("e1") \/ ConversationCheck("e1")

SpecSend == InitSend /\ [][NextSend]_vars

\* C12 (as claimed): once the outgoing messages are built, for a provider that
\* needs explicit cache control the annotated messages are exactly the last 4
\* (all, when there are at most 4) of the outgoing messages whose record has
\* should_cache = true, so never a message of a record with should_cache =
\* false and never more than 4, also when records without content were left
\* out; for another provider no message is annotated.
C12_CacheControlOnCachedRecords ==
    last_op.op \in {"invoke_model", "conversation_check"}
    => LET cached == {j \in 1..Len(messages_list) :
                         messages[messages_list[j].record].should_cache}
           lastFour == {j \in cached :
                         Cardinality({k \in cached : k > j}) < MaxCacheCheckpoints}
       IN \A j \in 1..Len(messages_list) :
             messages_list[j].cache_control
                <=> (should_manual_cache_control /\ j \in lastFour)

\* C13 (as claimed): in the outgoing messages of every model call only the
\* first message has the system role; in particular the conversation-confirm
\* audit transcript holds exactly one system-role message, for every length of
\* the conversation.
C13_OnlyFirstIsSystem ==
    last_op.op \in {"invoke_model", "conversation_check"}
    => \A j \in 2..Len(messages_list) : messages_list[j].role # "system"

\* C14 (as claimed): the conversation-confirm audit transcript is the auditor
\* system prompt, a truncation notice exactly when the conversation has more
\* than conversation_length records besides its system prompt, the last
\* conversation_length of those records (all of them when there are fewer), and
\* the audit request.
C14_AuditTranscript ==
    last_op.op = "conversation_check"
    => LET conv == Conv("e1")
           rest == SubSeq(conv, 2, Len(conv))
           first == IF Len(rest) > ConversationLength
                    THEN Len(rest) - ConversationLength + 1 ELSE 1
       IN messages = <<SafetyPromptRecord>>
                     \o (IF Len(rest) > ConversationLength
                         THEN <<TruncatedNoteRecord>> ELSE <<>>)
                     \o SubSeq(rest, first, Len(rest))
                     \o <<SafetyUserRecord>>

\* ------------------------------------------------------------------ the auditor's verdict

\* Auditor texts: words, among them the markers in several letter cases.
VerdictTexts ==
    SeqsUpTo({"[override]", "[OVERRIDE]", "[Override]", "[unsafe]", "[UnSafe]", "[SAFE]", "fine"},
             MaxWords)

\* "return get_confirm_safety_result(response_content)"; one call is followed.
ParseVerdict(content) ==
    /\ confirm_safety_result = "NONE"
    /\ response_content' = content
    /\ confirm_safety_result' = get_confirm_safety_result(content)
    /\ UNCHANGED <<convVars, max_learnings_history, sandboxVars, actVars, sendVars, disk,
                   namespaceVars, persistence, apartVars>>

SpecVerdict == InitAct /\ [][\E content \in VerdictTexts : ParseVerdict(content)]_vars

\* C15: the verdict is OVERRIDE exactly when the text holds "[override]" in
\* some letter case, else UNSAFE exactly when it holds "[unsafe]" in some letter
\* case, else (the empty text too) SAFE; both markers give OVERRIDE.
C15_VerdictFromMarkers ==
    confirm_safety_result # "NONE"
    => LET has(markers) == \E i \in 1..Len(response_content) : response_content[i] \in markers
           override == has({"[override]", "[OVERRIDE]", "[Override]"})
           unsafe == has({"[unsafe]", "[UNSAFE]", "[UnSafe]"})
       IN /\ confirm_safety_result = "OVERRIDE" <=> override
          /\ confirm_safety_result = "UNSAFE" <=> (unsafe /\ ~override)
          /\ confirm_safety_result = "SAFE" <=> (~unsafe /\ ~override)

\* C15 witness: a text with both markers, in mixed case, was given the verdict
\* OVERRIDE.
C15_Witness ==
    /\ confirm_safety_result = "OVERRIDE"
    /\ \E i, j \in 1..Len(response_content) :
          response_content[i] = "[UnSafe]" /\ response_content[j] = "[Override]" /\ i < j

\* ------------------------------------------------------------------ claims: safety outcomes

\* The records of conv created since next_uid was next, the trim's marker aside.
AppendedSince(conv, next) ==
    SelectSeq(conv, LAMBDA msg : msg.uid >= next /\ ~IsTruncationMarker(msg))

\* The step of e1's action that follows the auditor's reply content and, if the
\* user is asked, the answer confirm.
AuditOutcome(content, confirm) ==
    \/ \E raises \in BOOLEAN : AuditApproves("e1", content, confirm, raises)
    \/ AuditRefused("e1", content, confirm)
    \/ AuditDenied("e1", content)

\* C16: with a user to prompt, an UNSAFE verdict and an answer other than "y"
\* or "Y", the action has no side effect, one record is appended (the user-role
\* refusal), the action's result is CANCELLED, and the safety model was called
\* once for the action: the step calls no model and ends the action.
C16_DeclinedIsCancelled ==
    [][ \A content \in AuditReplies, confirm \in UserAnswers \ {"y", "Y"} :
           ( /\ can_prompt_user["e1"]
             /\ get_confirm_safety_result(content) = "UNSAFE"
             /\ AuditOutcome(content, confirm) )
           => LET appended == AppendedSince(conversation'[Self("e1")], next_uid)
                  before == execution_history[Self("e1")]
                  after == execution_history'[Self("e1")]
              IN /\ effects' = effects
                 /\ captured' = captured
                 /\ Len(appended) = 1
                 /\ appended[1].role = "user"
                 /\ appended[1].content = RefusalRecord.content
                 /\ Len(after) = Len(before) + 1
                 /\ SubSeq(after, 1, Len(before)) = before
                 /\ after[Len(after)].status = "CANCELLED"
                 /\ last_call.kind = "safety_check"
                 /\ last_call' = last_call
                 /\ act_pc'["e1"] = "idle"
      ]_vars

\* C16 witness: the user declined a response audited UNSAFE; the refusal is the
\* last record and the last result is CANCELLED.
C16_Witness ==
    /\ last_op = Op("audit_refused", "e1")
    /\ can_prompt_user["e1"]
    /\ Conv("e1")[Len(Conv("e1"))].content = RefusalRecord.content
    /\ LET history == execution_history[Self("e1")]
       IN history[Len(history)].status = "CANCELLED"

C18_ReturnedStatusReflectsOutcome ==
    [][ ( /\ frame["e1"].caller = "perform_action"
          /\ act_pc'["e1"] = "idle" )
        => LET response == frame["e1"].response
               before == execution_history[Self("e1")]
               after == execution_history'[Self("e1")]
               result == IF Len(after) > Len(before) THEN after[Len(after)] ELSE NoResult
               status == returned'["e1"].status
           IN /\ result.status = "CONFIRMATION_REQUIRED" => status = "CONFIRMATION_REQUIRED"
              /\ (result.status = "CANCELLED" /\ response.action = "CODE")
                    => status = "CANCELLED"
              /\ result.status = "ERROR" => status = "ERROR"
              /\ status = "SUCCESS" => result.status = "SUCCESS"
      ]_vars

\* ------------------------------------------------------------------ process_response

\* The record that tells the model the task was stopped.
InterruptedRecord ==
    ConversationRecord("user", <<"stop_task">>, FALSE, FALSE, FALSE, DefaultShouldCache)

\* "executor.interrupted = True", set from outside the executor.
Interrupt(e) ==
    /\ ~interrupted[e]
    /\ interrupted' = [interrupted EXCEPT ![e] = TRUE]
    /\ UNCHANGED <<convVars, max_learnings_history, sandboxVars, sendVars, verdictVars, disk, namespaceVars, persistence, apartVars,
                   can_prompt_user, act_pc, frame, next_rid, approved, effects,
                   stale_ephemerals, last_call, returnVars, execute_code_result>>

\* What process_response does when the flag is set.
StopTask(e) ==
    /\ act_pc[e] = "idle"
    /\ pc[e] = "idle"
    /\ next_uid + 1 <= MaxActRecords
    /\ Commit(e, Push(e, Mine(e), InterruptedRecord))
    /\ returned' = [returned EXCEPT ![e] =
                      ProcessResponseOutput("INTERRUPTED", <<"Task interrupted by user">>)]
    /\ last_op' = Op("interrupted", e)
    /\ UNCHANGED <<fixedVars, persistence, execute_code_result, captured, next_rid, approved,
                   effects, last_call,
                   stale_ephemerals, execution_history, pc, act_pc, frame, step_counter>>

\* self.agent_registry.update_agent_state(agent_id, agent_state, cwd, context),
\* if persist_conversation, the registry and the agent are set.
update_agent_state(e) ==
    [persistence EXCEPT ![e].pc = "idle",
                        ![e].update_agent_state =
                            IF persistence[e].persist_conversation THEN @ + 1 ELSE @]

\* After self.add_to_learnings: perform_action is awaited; for DONE, BYE and ASK
\* it returns without suspending and the state is persisted at once.
AwaitPerformAction(e, action, complete) ==
    /\ PerformActionCall(e, action, complete)
    /\ persistence' = IF IsFinalAction(action) THEN update_agent_state(e)
                      ELSE [persistence EXCEPT ![e].pc = "perform_action"]

\* A process_response that adds the learning before it looks at the flag.
ProcessResponse_LearnsFirst(e, action, complete, new_learnings) ==
    /\ persistence[e].pc = "idle"
    /\ learnings' = [learnings EXCEPT
                        ![Self(e)] = AddLearning(@, new_learnings, max_learnings_history[e])]
    /\ IF interrupted[e] THEN StopTask(e) ELSE AwaitPerformAction(e, action, complete)

\* process_response(response, classification), up to the first await of
\* perform_action.
ProcessResponse(e, action, complete, new_learnings) ==
    /\ persistence[e].pc = "idle"
    /\ IF interrupted[e]
       THEN StopTask(e) /\ UNCHANGED learnings
       ELSE /\ learnings' = [learnings EXCEPT
                                ![Self(e)] = AddLearning(@, new_learnings,
                                                         max_learnings_history[e])]
            /\ AwaitPerformAction(e, action, complete)

\* perform_action has returned to process_response (the sweep is over, or the
\* action was cancelled), which persists the state and returns.
PerformActionReturns(e) ==
    /\ persistence[e].pc = "perform_action"
    /\ act_pc[e] = "idle"
    /\ pc[e] = "idle"
    /\ persistence' = update_agent_state(e)
    /\ UNCHANGED <<convVars, max_learnings_history, sandboxVars, actVars, sendVars,
                   verdictVars, disk, namespaceVars, apartVars>>

RespondStep(e) ==
    \/ Interrupt(e)
    \/ PerformActionReturns(e)
    \/ \E action \in ActionTypes, complete \in BOOLEAN, new_learnings \in {"", "learning_a"} :
          ProcessResponse(e, action, complete, new_learnings)
    \/ InitializeConversationHistory(e, <<>>, FALSE)
    \/ \E content \in AuditReplies, confirm \in UserAnswers, raises \in BOOLEAN :
          AuditApproves(e, content, confirm, raises)
    \/ \E content \in AuditReplies, confirm \in UserAnswers : AuditRefused(e, content, confirm)
    \/ \E content \in AuditReplies : AuditDenied(e, content)
    \/ AuditRaises(e)
    \/ RiskSummaryReply(e)
    \/ RiskSummaryRaises(e)
    \/ RunSucceeds(e)
    \/ RunFailsForGood(e)
    \/ SummarizeOldSteps(e)

NextRespond == RespondStep("e1")

SpecRespond == InitAct /\ [][NextRespond]_vars

\* C19: process_response called with the interrupt flag set returns
\* INTERRUPTED, appends one record (user role, not to be summarized) and does
\* nothing else: no model is called, nothing runs and no file is touched, no
\* learning is added, execution_history and the step counter stay as they were.
\* (Here for a CODE response that brings a learning.)
C19_InterruptedOnlyStops ==
    [][ (interrupted["e1"] /\ ProcessResponse("e1", "CODE", TRUE, "learning_a"))
           => LET appended == AppendedSince(conversation'[Self("e1")], next_uid)
              IN /\ returned'["e1"].status = "INTERRUPTED"
                 /\ Len(appended) = 1
                 /\ appended[1].role = "user"
                 /\ ~appended[1].should_summarize
                 /\ UNCHANGED <<learnings, execution_history, step_counter, effects,
                                captured, approved, last_call, act_pc, frame>>
      ]_vars

\* C19 witness: a task with a learning and an executed action was interrupted,
\* and process_response returned INTERRUPTED.
C19_Witness ==
    /\ last_op = Op("interrupted", "e1")
    /\ returned["e1"].status = "INTERRUPTED"
    /\ interrupted["e1"]
    /\ learnings[Self("e1")] # <<>>
    /\ execution_history[Self("e1")] # <<>>
    /\ effects # {}
    /\ Conv("e1")[Len(Conv("e1"))].content = InterruptedRecord.content

\* ------------------------------------------------------------------ claims: retries

\* C20: with the default max_retries, a snippet that raises on the first
\* attempt has its error recorded (new records are created) and the model is
\* asked for corrected code, which is then run: the failed run is followed by
\* the correction call, not by the end of execute_code.
C20_DefaultRetriesOnce ==
    [][ ( /\ act_pc["e1"] = "run"
          /\ frame["e1"].max_retries = DefaultMaxRetries
          /\ frame["e1"].attempt = 0
          /\ last_op' = Op("run_error", "e1") )
        => /\ next_uid' > next_uid
           /\ act_pc'["e1"] = "correct"
           /\ last_call'.kind = "correction"
      ]_vars

\* execute_code called on its own, with a history long enough to keep every
\* record of the attempts.
InitRetry ==
    /\ InitExecutors([e \in Executors |-> e])
    /\ max_conversation_history = [e \in Executors |-> MaxActRecords]
    /\ detail_conversation_length = [e \in Executors |-> -1]
    /\ max_learnings_history = [e \in Executors |-> DefaultMaxLearningsHistory]
    /\ InitStreams
    /\ disk = <<>>
    /\ InitPipeline(FALSE)

NextRetry ==
    \/ InitializeConversationHistory("e1", <<>>, FALSE)
    \/ RefreshEphemeral("e1")
    \/ \E max_retries \in 1..MaxRetries : ExecuteCode("e1", max_retries)
    \/ RunSucceeds("e1")
    \/ RunFailsAndRetries("e1")
    \/ RunFailsForGood("e1")
    \/ \E action \in {"CODE", "WRITE"} : CorrectedCode("e1", action, TRUE)
    \/ CorrectionRaises("e1")

SpecRetry == InitRetry /\ [][NextRetry]_vars

\* C21: every failed attempt appends one record carrying its error (user role,
\* to be summarized), after the error records of the attempts before it; when
\* execute_code gives up, its result is ACTION / CODE / ERROR and its stderr is
\* the error of the last attempt.
C21_LastErrorSurfaced ==
    [][ /\ (act_pc["e1"] = "run" /\ last_op' = Op("run_error", "e1"))
           => LET ErrorRecords(conv) ==
                      SelectSeq(conv, LAMBDA msg :
                                          /\ Len(msg.content) = 2
                                          /\ msg.content[1] \in {"initial_error", "retry_error"})
                  error == ErrorOf(frame["e1"].current_response)
                  new == conversation'[Self("e1")]
                  appended == ErrorRecords(AppendedSince(new, next_uid))
                  all == ErrorRecords(new)
              IN /\ Len(appended) = 1
                 /\ appended[1].role = "user"
                 /\ appended[1].should_summarize
                 /\ appended[1].content[2] = error
                 /\ all[Len(all)] = appended[1]
                 /\ act_pc'["e1"] = "idle"
                       => /\ execute_code_result'["e1"].status = "ERROR"
                          /\ execute_code_result'["e1"].execution_type = "ACTION"
                          /\ execute_code_result'["e1"].action = "CODE"
                          /\ execute_code_result'["e1"].stderr = error
        /\ (act_pc["e1"] = "correct" /\ act_pc'["e1"] = "idle")
           => /\ execute_code_result'["e1"].status = "ERROR"
              /\ execute_code_result'["e1"].stderr = frame["e1"].final_error
              /\ frame["e1"].final_error = ErrorOf(frame["e1"].current_response)
      ]_vars

\* C21 witness: execute_code gave up after a second attempt, and its stderr is
\* that attempt's error, which is not the first attempt's.
C21_Witness ==
    /\ last_op = Op("run_error", "e1")
    /\ act_pc["e1"] = "idle"
    /\ execute_code_result["e1"].status = "ERROR"
    /\ execute_code_result["e1"].stderr = <<"error", 2>>
    /\ \E i \in 1..Len(Conv("e1")) : Conv("e1")[i].content = <<"retry_error", <<"error", 2>>>>

\* ------------------------------------------------------------------ invoke_model

\* invoke_model's default max_attempts, its base_delay, and the seconds it
\* waits on a rate limit that names no retry-after.
DefaultMaxAttempts == 3
BaseDelay == 1
DefaultRetryAfter == 3

\* What a provider call can raise: an error with or without a status code (0
\* for without) and a headers dict, which may hold retry-after as the text of a
\* number or not.
ProviderErrors ==
    [status_code : {0, 429, 500},
     headers : {"none", "no_retry_after", "5", "date"}]

RECURSIVE Pow2(_)
Pow2(n) == IF n = 0 THEN 1 ELSE 2 * Pow2(n - 1)

\* int(text) for the header texts above; -1 stands for a ValueError.
PyInt(text) == CASE text = "5" -> 5 [] OTHER -> -1

\* A wait that backs off exponentially whatever the error.
Delay_AlwaysBackoff(error, attempt) == BaseDelay * Pow2(attempt - 1)

\* The seconds slept after a failure, attempt being already incremented.
Delay(error, attempt) ==
    IF error.status_code = 429 /\ error.headers # "none"
    THEN IF error.headers = "no_retry_after" THEN DefaultRetryAfter
         ELSE PyInt(error.headers)
    ELSE BaseDelay * Pow2(attempt - 1)

\* A loop that goes round once more.
LoopCondition_OneMore(attempt, max_attempts) == attempt <= max_attempts

\* "while attempt < max_attempts"
LoopCondition(attempt, max_attempts) == attempt < max_attempts

\* invoke_model(messages, max_attempts) is called.  With nothing to attempt it
\* raises "Failed to invoke model".
CallInvokeModel(max_attempts) ==
    /\ invoke.pc = "idle"
    /\ invoke' = IF LoopCondition(0, max_attempts)
                 THEN [NoInvoke EXCEPT !.pc = "attempt", !.max_attempts = max_attempts]
                 ELSE [NoInvoke EXCEPT !.pc = "raised", !.max_attempts = max_attempts,
                                       !.outcome = <<"Failed to invoke model", 0>>]
    /\ UNCHANGED <<convVars, max_learnings_history, sandboxVars, actVars, verdictVars, disk, namespaceVars, persistence, apartVars,
                   messages, messages_list, should_manual_cache_control>>

\* The provider streams a response: invoke_model returns it.
AttemptSucceeds ==
    /\ invoke.pc = "attempt"
    /\ invoke' = [invoke EXCEPT !.calls = @ + 1, !.pc = "returned",
                                !.outcome = <<"response", invoke.calls + 1>>]
    /\ UNCHANGED <<convVars, max_learnings_history, sandboxVars, actVars, verdictVars, disk, namespaceVars, persistence, apartVars,
                   messages, messages_list, should_manual_cache_control>>

\* The provider call raises (or streams nothing): the except clause, then the
\* loop test.  The error is told from those of other attempts by its call.
AttemptFails(raised) ==
    /\ invoke.pc = "attempt"
    /\ LET e == [status_code |-> raised.status_code, headers |-> raised.headers,
                 call |-> invoke.calls + 1]
           attempt == invoke.attempt + 1
           failed == [invoke EXCEPT !.calls = @ + 1, !.last_error = e, !.attempt = attempt,
                                    !.errors = Append(@, e)]
       IN invoke' =
             IF attempt < invoke.max_attempts
             THEN IF Delay(e, attempt) = -1
                  THEN [failed EXCEPT !.pc = "raised", !.outcome = <<"ValueError", 0>>]
                  ELSE [failed EXCEPT
                           !.slept = Append(@, Delay(e, attempt)),
                           !.pc = IF LoopCondition(attempt, invoke.max_attempts)
                                  THEN "attempt" ELSE "raised",
                           !.outcome = IF LoopCondition(attempt, invoke.max_attempts)
                                       THEN <<>> ELSE <<"error", e.call>>]
             ELSE IF LoopCondition(attempt, invoke.max_attempts)
             THEN failed
             ELSE [failed EXCEPT !.pc = "raised", !.outcome = <<"error", e.call>>]
    /\ UNCHANGED <<convVars, max_learnings_history, sandboxVars, actVars, verdictVars, disk, namespaceVars, persistence, apartVars,
                   messages, messages_list, should_manual_cache_control>>

InvokeStep == AttemptSucceeds \/ \E raised \in ProviderErrors : AttemptFails(raised)

NextInvoke == InvokeStep \/ \E max_attempts \in 0..MaxAttempts : CallInvokeModel(max_attempts)

\* The event loop runs the coroutine, and the provider answers or fails.
SpecInvoke == InitRetry /\ [][NextInvoke]_vars /\ WF_vars(InvokeStep)

\* C22: invoke_model calls the provider at most max_attempts times, returns
\* the response of the first call that succeeds and calls no more, raises the
\* last attempt's error after max_attempts failures, and always ends.
C22_BoundedAttempts ==
    /\ [](/\ invoke.calls <= invoke.max_attempts
          /\ invoke.pc = "returned"
                => /\ invoke.outcome = <<"response", invoke.calls>>
                   /\ Len(invoke.errors) = invoke.calls - 1
          /\ Len(invoke.errors) = invoke.max_attempts /\ invoke.max_attempts > 0
                => /\ invoke.pc = "raised"
                   /\ invoke.outcome = <<"error", invoke.errors[invoke.max_attempts].call>>
                   /\ invoke.errors[invoke.max_attempts].call = invoke.max_attempts)
    /\ [][invoke.pc \in {"returned", "raised"} => invoke' = invoke]_vars
    /\ (invoke.pc = "attempt" ~> invoke.pc \in {"returned", "raised"})

\* C22 witness: with the default max_attempts, two calls failed and the third
\* returned its response.
C22_Witness ==
    /\ invoke.max_attempts = DefaultMaxAttempts
    /\ invoke.pc = "returned"
    /\ invoke.calls = 3
    /\ invoke.outcome = <<"response", 3>>

MAX_FILE_READ_SIZE_BYTES == 1024 * 24
BulkBytes == MAX_FILE_READ_SIZE_BYTES - 1
Bulk == "BULK"
Letters == {"a", "b"}
FileContents == SeqsUpTo(Letters \cup {Bulk}, MaxFileTokens)
WrittenContents == { <<"a", "b">> }
Replacements ==
    { [find |-> <<"a">>, replace |-> <<"b">>], [find |-> <<"b">>, replace |-> <<"a", "a">>],
      [find |-> <<"a", "b">>, replace |-> <<"b">>], [find |-> <<"a">>, replace |-> <<"a", "a">>] }
ReplacementLists == SeqsUpTo(Replacements, MaxReplacements) \ { <<>> }

\* os.path.getsize(file_path)
RECURSIVE getsize(_)
getsize(file_content) ==
    IF file_content = <<>> THEN 0
    ELSE (IF Head(file_content) = Bulk THEN BulkBytes ELSE 1) + getsize(Tail(file_content))

\* read_file's size check
TooLarge_AtLimit(file_content) == getsize(file_content) >= MAX_FILE_READ_SIZE_BYTES
TooLarge(file_content) == getsize(file_content) > MAX_FILE_READ_SIZE_BYTES

\* find occurs in file_content at index i; "find in file_content"
OccursAt(find, file_content, i) ==
    /\ i + Len(find) - 1 <= Len(file_content)
    /\ SubSeq(file_content, i, i + Len(find) - 1) = find
In(find, file_content) == \E i \in 1..Len(file_content) : OccursAt(find, file_content, i)

\* file_content.replace(find, replace, 1), and the same on the last occurrence
ReplaceAt(file_content, i, find, replace) ==
    SubSeq(file_content, 1, i - 1) \o replace \o
    SubSeq(file_content, i + Len(find), Len(file_content))
Replace1_Last(file_content, find, replace) ==
    LET at == { i \in 1..Len(file_content) : OccursAt(find, file_content, i) }
    IN IF at = {} THEN file_content
       ELSE ReplaceAt(file_content, CHOOSE i \in at : \A j \in at : j <= i, find, replace)
Replace1(file_content, find, replace) ==
    LET at == { i \in 1..Len(file_content) : OccursAt(find, file_content, i) }
    IN IF at = {} THEN file_content
       ELSE ReplaceAt(file_content, CHOOSE i \in at : \A j \in at : i <= j, find, replace)

\* edit_file's loop over the replacements, from the content read: the content
\* it arrives at, or the find string whose absence raised ValueError.
RECURSIVE ApplyReplacements(_, _)
ApplyReplacements(file_content, replacements) ==
    IF replacements = <<>> THEN [raised |-> FALSE, find |-> <<>>, file_content |-> file_content]
    ELSE LET replacement == Head(replacements)
         IN IF ~In(replacement.find, file_content)
            THEN [raised |-> TRUE, find |-> replacement.find, file_content |-> file_content]
            ELSE ApplyReplacements(Replace1(file_content, replacement.find, replacement.replace),
                                   Tail(replacements))

\* What is on disk after edit_file(replacements) found original there: the
\* single write comes after the loop.
OnDiskAfterEdit_WritesAsItGoes(original, replacements) ==
    ApplyReplacements(original, replacements).file_content
OnDiskAfterEdit(original, replacements) ==
    LET edit == ApplyReplacements(original, replacements)
    IN IF edit.raised THEN original ELSE edit.file_content

\* The ValueError a file operation raises on the file found on disk, <<>> if none.
FileError(action, file_content, replacements) ==
    IF action = "READ" /\ TooLarge(file_content) THEN <<"File is too large">>
    ELSE IF action = "EDIT" /\ ApplyReplacements(file_content, replacements).raised
    THEN <<"Find string not found">> \o ApplyReplacements(file_content, replacements).find
    ELSE <<>>

\* The safety check lets a READ, WRITE or EDIT response through, and
\* perform_action calls read_file, write_file(content) or
\* edit_file(replacements): the operation appends the annotated content as a
\* user record and returns its result, or it raises and the except clause
\* appends the error as a user record.
FileOperation(e, verdict, confirm, content, replacements) ==
    /\ act_pc[e] = "audit"
    /\ next_uid + 1 <= MaxActRecords
    /\ HandleSafetyResult(e, SafetyResult(e, verdict, confirm)) = NoResult
    /\ LET response == frame[e].response
           error == FileError(response.action, disk, replacements)
       IN /\ response.action \in {"READ", "WRITE", "EDIT"}
          /\ approved' = approved \cup {response.rid}
          /\ effects' = effects \cup {Effect(response, response.action)}
          /\ disk' = CASE response.action = "WRITE" -> content
                       [] response.action = "EDIT" -> OnDiskAfterEdit(disk, replacements)
                       [] OTHER -> disk
          /\ IF error # <<>>
             THEN /\ Commit(e, Push(e, Mine(e),
                                    [ErrorRecord EXCEPT !.content = @ \o error]))
                  /\ EndOfAction(e, NoResult)
             ELSE /\ Commit(e, Push(e, Mine(e),
                                    [FileRecord(response.action) EXCEPT
                                        !.content = @ \o (IF disk' = <<>>
                                                          THEN <<"[File is empty]">>
                                                          ELSE disk')]))
                  /\ EndOfAction(e, CodeExecutionResult("SUCCESS", <<"file", "done">>,
                                                        "ACTION", response.action))
    /\ last_op' = Op("file_operation", e)
    /\ UNCHANGED <<configVars, namespaceVars, persistence, apartVars, learnings, execute_code_result, captured,
                   next_rid, last_call, stale_ephemerals>>

InitFile ==
    /\ InitExecutors([e \in Executors |-> e])
    /\ max_conversation_history = [e \in Executors |-> MaxActRecords]
    /\ detail_conversation_length = [e \in Executors |-> -1]
    /\ max_learnings_history = [e \in Executors |-> DefaultMaxLearningsHistory]
    /\ InitStreams
    /\ disk \in FileContents
    /\ InitPipeline(FALSE)

NextFile ==
    \/ InitializeConversationHistory("e1", <<>>, FALSE)
    \/ \E action \in {"READ", "WRITE", "EDIT"}, complete \in BOOLEAN :
          PerformAction("e1", action, complete)
    \/ \E verdict \in { <<"[SAFE]">> }, content \in WrittenContents,
          replacements \in ReplacementLists :
          FileOperation("e1", verdict, "y", content, replacements)
    \/ SummarizeOldSteps("e1")

SpecFile == InitFile /\ [][NextFile]_vars

\* The step of e1's approved EDIT with these replacements, and of its approved READ.
EditStep(replacements) ==
    /\ frame["e1"].response.action = "EDIT"
    /\ FileOperation("e1", <<"[SAFE]">>, "y", <<"a", "b">>, replacements)
ReadStep ==
    /\ frame["e1"].response.action = "READ"
    /\ FileOperation("e1", <<"[SAFE]">>, "y", <<"a", "b">>, <<[find |-> <<"a">>, replace |-> <<"b">>]>>)

\* C24: when a replacement's find string does not occur in the content at the
\* moment it is applied, the EDIT fails with the "Find string not found" error
\* naming that string, the file on disk is unchanged (what earlier
\* replacements of the request did is not written), and one user record
\* carrying the error is appended to the conversation.
C24_MissingFindLeavesFile ==
    [][\A replacements \in ReplacementLists :
          (/\ EditStep(replacements)
           /\ \E k \in 1..Len(replacements) :
                 /\ ~ApplyReplacements(disk, SubSeq(replacements, 1, k - 1)).raised
                 /\ ~In(replacements[k].find,
                        ApplyReplacements(disk, SubSeq(replacements, 1, k - 1)).file_content))
          => LET k == CHOOSE k \in 1..Len(replacements) :
                         /\ ~ApplyReplacements(disk, SubSeq(replacements, 1, k - 1)).raised
                         /\ ~In(replacements[k].find,
                                ApplyReplacements(disk, SubSeq(replacements, 1, k - 1)).file_content)
                 new == AppendedSince(conversation'["e1"], next_uid)
             IN /\ disk' = disk
                /\ Len(new) = 1
                /\ new[1].role = "user"
                /\ new[1].content = <<"action_error", "Find string not found">> \o
                                    replacements[k].find
                /\ execution_history' = execution_history]_vars

\* C24 witness: an EDIT failed on a find string that the file on disk contains:
\* an earlier replacement of the request had removed it, and was not written.
C24_Witness ==
    /\ last_op = Op("file_operation", "e1")
    /\ Len(conversation["e1"]) > 0
    /\ LET last == conversation["e1"][Len(conversation["e1"])]
       IN /\ Len(last.content) > 2
          /\ last.content[2] = "Find string not found"
          /\ In(SubSeq(last.content, 3, Len(last.content)), disk)

\* C25: on success the content edit_file writes back is the result of applying
\* the replacements one after another in list order, each replacing only the
\* first occurrence of its find string in what the preceding ones produced,
\* every other part of the content staying as it was.
C25_SequentialFirstOccurrence ==
    [][\A replacements \in ReplacementLists :
          (EditStep(replacements) /\ execution_history' # execution_history)
          => LET FirstReplaced(text, r) ==
                     LET i == CHOOSE i \in 1..Len(text) :
                                  /\ OccursAt(r.find, text, i)
                                  /\ \A j \in 1..(i - 1) : ~OccursAt(r.find, text, j)
                     IN SubSeq(text, 1, i - 1) \o r.replace \o
                        SubSeq(text, i + Len(r.find), Len(text))
                 after[k \in 0..Len(replacements)] ==
                     IF k = 0 THEN disk ELSE FirstReplaced(after[k - 1], replacements[k])
             IN /\ disk' = after[Len(replacements)]
                /\ \A k \in 1..Len(replacements) : In(replacements[k].find, after[k - 1])]_vars

\* C25 witness: a successful EDIT has grown a file that holds a block no
\* replacement touches.
C25_Witness ==
    /\ last_op = Op("file_operation", "e1")
    /\ Len(execution_history["e1"]) > 0
    /\ execution_history["e1"][Len(execution_history["e1"])].action = "EDIT"
    /\ execution_history["e1"][Len(execution_history["e1"])].status = "SUCCESS"
    /\ Len(disk) > MaxFileTokens
    /\ \E i \in 1..Len(disk) : disk[i] = Bulk

\* C26: a READ, WRITE or EDIT action that fails (file too large, find string
\* missing, missing file path) adds an execution result of type ACTION with
\* status ERROR to execution_history, besides the user record with the error.
C26_FailedFileActionRecorded ==
    [][(/\ last_op' \in {Op("perform_action", "e1"), Op("file_operation", "e1")}
        /\ \E i \in 1..Len(conversation'["e1"]) :
              /\ conversation'["e1"][i].uid >= next_uid
              /\ Head(conversation'["e1"][i].content) = "action_error")
       => /\ Len(execution_history'["e1"]) = Len(execution_history["e1"]) + 1
          /\ execution_history'["e1"][Len(execution_history'["e1"])].status = "ERROR"
          /\ execution_history'["e1"][Len(execution_history'["e1"])].execution_type = "ACTION"]_vars

\* C27: read_file rejects a file of more than 24 * 1024 bytes: the too-large
\* error is recorded and the contents are not appended; it accepts a file of
\* up to exactly 24 * 1024 bytes and appends its contents as one user record.
C27_ReadSizeLimit ==
    [][ReadStep
       => LET new == AppendedSince(conversation'["e1"], next_uid)
          IN /\ Len(new) = 1
             /\ new[1].role = "user"
             /\ disk' = disk
             /\ IF getsize(disk) > 24 * 1024
                THEN /\ new[1].content = <<"action_error", "File is too large">>
                     /\ execution_history' = execution_history
                ELSE /\ new[1].content = <<"file", "READ">> \o
                            (IF disk = <<>> THEN <<"[File is empty]">> ELSE disk)
                     /\ Len(execution_history'["e1"]) = Len(execution_history["e1"]) + 1]_vars

\* C27 witness: a file of exactly 24 * 1024 bytes has been read into the conversation.
C27_Witness ==
    /\ last_op = Op("file_operation", "e1")
    /\ getsize(disk) = 24 * 1024
    /\ Len(conversation["e1"]) > 0
    /\ conversation["e1"][Len(conversation["e1"])].content = <<"file", "READ">> \o disk

\* ------------------------------------------------------------------ DONE, ASK and BYE
\* C28: for DONE, ASK or BYE, perform_action appends exactly one execution
\* result (ACTION, SUCCESS, that action) to execution_history and returns; no
\* audit, no model call, no sandbox or file effect, and the conversation and
\* the step counter stay as they were.
C28_FinalActionsOnlyRecord ==
    [][\A action \in {"DONE", "ASK", "BYE"} :
          (last_op' = Op("perform_action", "e1") /\ next_rid' = next_rid + 1
           /\ \E complete \in BOOLEAN : PerformAction("e1", action, complete))
          => /\ Len(execution_history'["e1"]) = Len(execution_history["e1"]) + 1
             /\ SubSeq(execution_history'["e1"], 1, Len(execution_history["e1"])) =
                    execution_history["e1"]
             /\ LET result == execution_history'["e1"][Len(execution_history'["e1"])]
                IN /\ result.execution_type = "ACTION"
                   /\ result.status = "SUCCESS"
                   /\ result.action = action
             /\ returned'["e1"].status = "SUCCESS"
             /\ act_pc' = act_pc
             /\ last_call' = last_call
             /\ approved' = approved
             /\ effects' = effects
             /\ UNCHANGED <<sandboxVars, disk, context>>
             /\ conversation' = conversation
             /\ step_counter' = step_counter]_vars

\* C28 witness: an ASK has been performed and is the last result in the history.
C28_Witness ==
    /\ last_op = Op("perform_action", "e1")
    /\ act_pc["e1"] = "idle"
    /\ Len(execution_history["e1"]) > 0
    /\ execution_history["e1"][Len(execution_history["e1"])].action = "ASK"
    /\ returned["e1"] = ProcessResponseOutput("SUCCESS", ActionCompleted)

\* ------------------------------------------------------------------ learnings
LearningTexts == Learnings \cup {"learning_c"}

InitLearn ==
    /\ InitExecutors([e \in Executors |-> e])
    /\ max_conversation_history = [e \in Executors |-> MaxHist]
    /\ detail_conversation_length = [e \in Executors |-> -1]
    /\ \E n \in 0..MaxLearn : max_learnings_history = [e \in Executors |-> n]
    /\ InitStreams
    /\ disk = <<>>
    /\ InitPipeline(FALSE)

NextLearn == \E e \in Executors, learning \in LearningTexts : AddToLearnings(e, learning)

SpecLearn == InitLearn /\ [][NextLearn]_vars

\* C29: through any sequence of add_to_learnings calls the list has no
\* duplicate and no empty entry and is never longer than
\* max_learnings_history; a call with an empty or already present entry
\* changes nothing; otherwise the entry goes to the end, the entries before it
\* keep their order, and when the cap would be exceeded the oldest is evicted.
C29_LearningsBoundedFifo ==
    /\ [](\A e \in Executors :
             LET list == learnings[e]
             IN /\ Len(list) <= max_learnings_history[e]
                /\ \A i \in 1..Len(list) : list[i] # ""
                /\ \A i, j \in 1..Len(list) : list[i] = list[j] => i = j)
    /\ [][\A e \in Executors, learning \in LearningTexts :
             AddToLearnings(e, learning)
             => LET list == learnings[e]
                    after == learnings'[e]
                IN IF learning = "" \/ learning \in {list[i] : i \in 1..Len(list)}
                   THEN after = list
                   ELSE IF Len(list) < max_learnings_history[e]
                   THEN after = list \o <<learning>>
                   ELSE after = SubSeq(list \o <<learning>>, 2, Len(list) + 1)]_vars

\* C29 witness: after add_to_learnings calls both executors' lists are at
\* their cap of two, in the order their entries were added.
C29_Witness ==
    /\ last_op = Op("add_learning", "e1")
    /\ max_learnings_history["e1"] = 2
    /\ learnings["e1"] = <<"learning_b", "learning_c">>
    /\ learnings["e2"] = <<"learning_a", "learning_b">>

\* ------------------------------------------------------------------ the sandbox namespace
\* A snippet is a list of top-level statements <<kind, name>>: an assignment
\* to a name, a def or an async def of a name, a statement that raises, and a
\* statement with an await in it.
Statements ==
    { <<"assign", "x">>, <<"def", "f">>, <<"async def", "g">>, <<"raise", "">>, <<"await", "">> }
Snippets == SeqsUpTo(Statements, MaxStatements)

\* "async def" in code or "await" in code
NeedsAsyncWrapper(code) == \E i \in 1..Len(code) : code[i][1] \in {"async def", "await"}

\* exec(compiled_code, namespace): the statements run in order up to the
\* first that raises, each binding its name in namespace.
RECURSIVE Exec(_, _)
Exec(code, namespace) ==
    IF code = <<>> \/ Head(code)[1] = "raise" THEN namespace
    ELSE Exec(Tail(code),
              IF Head(code)[1] \in {"assign", "def", "async def"}
              THEN namespace \cup {Head(code)[2]} ELSE namespace)

\* _run_code(code).  A snippet with "async def" or "await" in it becomes the
\* body of __temp_async_fn, so what it binds are that function's locals: exec
\* binds only __temp_async_fn and __temp_coro in the namespace, and the finally
\* clause deletes both.
RunCode(e, code) ==
    /\ context' = [context EXCEPT
                      ![e] = IF NeedsAsyncWrapper(code)
                             THEN (@ \cup {"__temp_async_fn", "__temp_coro"})
                                  \ {"__temp_async_fn", "__temp_coro"}
                             ELSE Exec(code, @)]
    /\ last_code' = code
    /\ UNCHANGED <<convVars, max_learnings_history, sandboxVars, actVars, sendVars,
                   verdictVars, disk, persistence, apartVars>>

SpecNamespace ==
    InitSandbox /\ [][\E e \in Executors, code \in Snippets : RunCode(e, code)]_vars

\* C30: a top-level name a snippet assigned or defined is in the sandbox
\* namespace when the next snippet of the session runs, also when the snippet
\* raised afterwards and when it contains "await" or "async def" and ran
\* through the async wrapper; and what earlier snippets bound stays.
C30_NamespacePersists ==
    [][\A e \in Executors, code \in Snippets :
          RunCode(e, code)
          => /\ context[e] \subseteq context'[e]
             /\ \A i \in 1..Len(code) :
                   (/\ code[i][1] \in {"assign", "def", "async def"}
                    /\ \A j \in 1..(i - 1) : code[j][1] # "raise")
                   => code[i][2] \in context'[e]]_vars

\* ------------------------------------------------------------------ persistence
\* C31: with persist_conversation, an agent and a registry set, a call of
\* process_response that changed the conversation or the execution history
\* makes exactly one update_agent_state call before it ends, also when it
\* ends with INTERRUPTED.
C31_PersistedBeforeReturn ==
    [][(/\ persistence["e1"].persist_conversation
        /\ persistence'["e1"].pc = "idle"
        /\ \/ persistence["e1"].pc = "perform_action"
           \/ /\ last_op' \in {Op("interrupted", "e1"), Op("perform_action", "e1")}
              /\ conversation' # conversation \/ execution_history' # execution_history)
       => persistence'["e1"].update_agent_state = persistence["e1"].update_agent_state + 1]_vars

\* ------------------------------------------------------------------ the connection manager
\* A dict without the key k, and with k bound to v.
DictWithout(d, k) == [x \in DOMAIN d \ {k} |-> d[x]]
DictWith(d, k, v) == [x \in DOMAIN d \cup {k} |-> IF x = k THEN v ELSE d[x]]

\* list.remove(x), for a list that holds x
ListRemove(list, x) ==
    LET i == CHOOSE i \in 1..Len(list) : list[i] = x /\ \A j \in 1..(i - 1) : list[j] # x
    IN SubSeq(list, 1, i - 1) \o SubSeq(list, i + 1, Len(list))
Holds(list, x) == \E i \in 1..Len(list) : list[i] = x

\* websocket.send_text takes the message while the peer is there.
Reachable(websocket) == endpoint[websocket].state \in {"open", "get_job", "send_initial"}

\* The set a broadcast_job_update in flight iterates is the dict's entry until
\* the entry is deleted; the list a broadcast to one client iterates likewise.
\* A deleted entry's object is empty.
JobUpdateSees(subscribers) ==
    IF job_update.pc = "send" /\ job_update.live /\ job_update.job_id \notin DOMAIN subscribers
    THEN [job_update EXCEPT !.live = FALSE] ELSE job_update
BroadcastSees(connections) ==
    IF fanout.pc = "send" /\ fanout.live /\ fanout.client_id \notin DOMAIN connections
    THEN [fanout EXCEPT !.live = FALSE] ELSE fanout

\* ConnectionManager.connect, after websocket.accept()
Connect(websocket) ==
    /\ endpoint[websocket].state = "new"
    /\ LET client_id == ClientOf(websocket)
       IN active_connections' =
              DictWith(active_connections, client_id,
                       (IF client_id \in DOMAIN active_connections
                        THEN active_connections[client_id] ELSE <<>>) \o <<websocket>>)
    /\ endpoint' = [endpoint EXCEPT ![websocket].state = "open"]
    /\ UNCHANGED <<job_subscribers, inbox, job_status, job_update, fanout>>

\* The peer goes away: the endpoint's receive_text will raise WebSocketDisconnect.
PeerCloses(websocket) ==
    /\ endpoint[websocket].state = "open"
    /\ endpoint' = [endpoint EXCEPT ![websocket].state = "broken"]
    /\ UNCHANGED <<active_connections, job_subscribers, inbox, job_status, job_update, fanout>>

\* ConnectionManager.disconnect(websocket, client_id), on the dicts given
disconnect(connections, subscribers, websocket, client_id) ==
    LET remaining == IF client_id \in DOMAIN connections /\ Holds(connections[client_id], websocket)
                     THEN ListRemove(connections[client_id], websocket)
                     ELSE IF client_id \in DOMAIN connections THEN connections[client_id]
                     ELSE <<>>
    IN [active_connections |->
            IF client_id \notin DOMAIN connections THEN connections
            ELSE IF remaining = <<>> THEN DictWithout(connections, client_id)
            ELSE DictWith(connections, client_id, remaining),
        job_subscribers |->
            [job_id \in {j \in DOMAIN subscribers : subscribers[j] \ {websocket} # {}} |->
                subscribers[job_id] \ {websocket}]]

\* websocket_endpoint's except WebSocketDisconnect: manager.disconnect
Disconnect(websocket) ==
    /\ endpoint[websocket].state = "broken"
    /\ LET after == disconnect(active_connections, job_subscribers, websocket,
                               ClientOf(websocket))
       IN /\ active_connections' = after.active_connections
          /\ job_subscribers' = after.job_subscribers
          /\ job_update' = JobUpdateSees(after.job_subscribers)
          /\ fanout' = BroadcastSees(after.active_connections)
    /\ endpoint' = [endpoint EXCEPT ![websocket].state = "closed"]
    /\ UNCHANGED <<inbox, job_status>>

\* The subscribe_job command: subscribe_to_job, then the await of get_job.
SubscribeJob(websocket, job_id) ==
    /\ endpoint[websocket].state = "open"
    /\ Len(inbox[websocket]) < MaxInbox
    /\ job_subscribers' =
           DictWith(job_subscribers, job_id,
                    (IF job_id \in DOMAIN job_subscribers THEN job_subscribers[job_id] ELSE {})
                    \cup {websocket})
    /\ endpoint' = [endpoint EXCEPT ![websocket].state = "get_job", ![websocket].job_id = job_id]
    /\ UNCHANGED <<active_connections, inbox, job_status, job_update, fanout>>

\* get_job returns the job, and the job_update event built from it is handed
\* to send_personal_message.
GetJobReturns(websocket) ==
    /\ endpoint[websocket].state = "get_job"
    /\ inbox' = [inbox EXCEPT ![websocket] =
                    Append(@, <<"job_update", endpoint[websocket].job_id,
                                job_status[endpoint[websocket].job_id]>>)]
    /\ endpoint' = [endpoint EXCEPT ![websocket].state = "send_initial"]
    /\ UNCHANGED <<active_connections, job_subscribers, job_status, job_update, fanout>>

\* send_personal_message returns and the endpoint awaits the next command.
SendInitial(websocket) ==
    /\ endpoint[websocket].state = "send_initial"
    /\ endpoint' = [endpoint EXCEPT ![websocket] = [state |-> "open", job_id |-> ""]]
    /\ UNCHANGED <<active_connections, job_subscribers, inbox, job_status, job_update, fanout>>

\* The unsubscribe_job command: unsubscribe_from_job, for a subscriber.
UnsubscribeJob(websocket, job_id) ==
    /\ endpoint[websocket].state = "open"
    /\ job_id \in DOMAIN job_subscribers
    /\ websocket \in job_subscribers[job_id]
    /\ job_subscribers' =
           IF job_subscribers[job_id] = {websocket} THEN DictWithout(job_subscribers, job_id)
           ELSE DictWith(job_subscribers, job_id, job_subscribers[job_id] \ {websocket})
    /\ job_update' = JobUpdateSees(job_subscribers')
    /\ UNCHANGED <<active_connections, endpoint, inbox, job_status, fanout>>

\* The job manager completes the job.
JobCompletes(job_id) ==
    /\ job_status[job_id] = "processing"
    /\ job_status' = [job_status EXCEPT ![job_id] = "completed"]
    /\ UNCHANGED <<active_connections, job_subscribers, endpoint, inbox, job_update, fanout>>

\* broadcast_job_update's loop "for connection in disconnected:
\* self.job_subscribers[job_id].remove(connection)": the dict it leaves, and
\* whether a lookup or a remove raised KeyError.
RECURSIVE RemoveSubscribers(_, _, _)
RemoveSubscribers(subscribers, job_id, disconnected) ==
    IF disconnected = <<>> THEN [job_subscribers |-> subscribers, raised |-> FALSE]
    ELSE IF job_id \notin DOMAIN subscribers \/ Head(disconnected) \notin subscribers[job_id]
    THEN [job_subscribers |-> subscribers, raised |-> TRUE]
    ELSE RemoveSubscribers(DictWith(subscribers, job_id, subscribers[job_id] \ {Head(disconnected)}),
                           job_id, Tail(disconnected))

\* connection.send_text(message): the peer gets it if it is there.
SendText(connection, message) ==
    IF Reachable(connection) THEN [inbox EXCEPT ![connection] = Append(@, message)] ELSE inbox

\* broadcast_job_update(job_id, message) is called: nothing to do without
\* subscribers, else the iteration of the set starts and the first send is awaited.
BroadcastJobUpdate(job_id) ==
    /\ job_update.pc # "send"
    /\ \A w \in Websockets : Len(inbox[w]) < MaxInbox
    /\ IF job_id \notin DOMAIN job_subscribers
       THEN /\ job_update' = [NoJobUpdate EXCEPT !.pc = "returned", !.job_id = job_id,
                                                 !.message = job_status[job_id]]
            /\ UNCHANGED inbox
       ELSE \E connection \in job_subscribers[job_id] :
               /\ job_update' = [NoJobUpdate EXCEPT
                                    !.pc = "send", !.job_id = job_id,
                                    !.message = job_status[job_id],
                                    !.connection = connection,
                                    !.accepted = Reachable(connection),
                                    !.started_with = job_subscribers[job_id],
                                    !.iterated = {connection}, !.live = TRUE]
               /\ inbox' = SendText(connection, <<"job_update", job_id, job_status[job_id]>>)
    /\ UNCHANGED <<active_connections, job_subscribers, endpoint, job_status, fanout>>

\* The awaited send_text returns or raises, and the loop goes on: the set
\* iterator raises RuntimeError if the set's size is not what it was when the
\* iteration began; it yields the members not yet yielded (one added meanwhile
\* may be passed over); after the loop the cleanup.
JobUpdateSent ==
    /\ job_update.pc = "send"
    /\ LET connection == job_update.connection
           job_id == job_update.job_id
           ok == job_update.accepted
           disconnected == IF ok THEN job_update.disconnected
                           ELSE Append(job_update.disconnected, connection)
           sent == IF ok THEN job_update.sent \cup {connection} ELSE job_update.sent
           iterable == IF job_update.live THEN job_subscribers[job_id] ELSE {}
           rest == iterable \ job_update.iterated
           cleaned == RemoveSubscribers(job_subscribers, job_id, disconnected)
           here == [job_update EXCEPT !.disconnected = disconnected, !.sent = sent]
           over == [NoJobUpdate EXCEPT !.job_id = job_id, !.message = job_update.message,
                                       !.disconnected = disconnected, !.sent = sent]
       IN IF Cardinality(iterable) # Cardinality(job_update.started_with)
             THEN /\ job_update' = [over EXCEPT !.pc = "raised", !.outcome = "RuntimeError"]
                  /\ UNCHANGED <<job_subscribers, inbox>>
             ELSE \/ \E next \in rest :
                        /\ job_update' = [here EXCEPT !.connection = next,
                                                      !.accepted = Reachable(next),
                                                      !.iterated = @ \cup {next}]
                        /\ inbox' = SendText(next, <<"job_update", job_id, job_update.message>>)
                        /\ UNCHANGED job_subscribers
                  \/ /\ rest \subseteq (iterable \ job_update.started_with)
                     /\ UNCHANGED inbox
                     /\ IF cleaned.raised
                        THEN /\ job_update' = [over EXCEPT !.pc = "raised",
                                                           !.outcome = "KeyError"]
                             /\ job_subscribers' = cleaned.job_subscribers
                        ELSE /\ job_update' = [over EXCEPT !.pc = "returned"]
                             /\ job_subscribers' =
                                    IF cleaned.job_subscribers[job_id] = {}
                                    THEN DictWithout(cleaned.job_subscribers, job_id)
                                    ELSE cleaned.job_subscribers
    /\ UNCHANGED <<active_connections, endpoint, job_status, fanout>>

\* broadcast's cleanup after its loop.  For one client:
\* "self.active_connections[client_id].remove(connection)" for each that
\* failed, then the entry is deleted if empty; a missing entry raises KeyError
\* and a missing connection ValueError.  For all clients: each that failed is
\* removed from every list that holds it, and empty entries are deleted.
RECURSIVE RemoveConnections(_, _, _)
RemoveConnections(connections, client_id, disconnected) ==
    IF disconnected = <<>>
    THEN IF client_id = "" THEN [active_connections |-> connections, raised |-> "none"]
         ELSE IF client_id \notin DOMAIN connections
         THEN [active_connections |-> connections, raised |-> "KeyError"]
         ELSE [active_connections |-> IF connections[client_id] = <<>>
                                      THEN DictWithout(connections, client_id)
                                      ELSE connections,
               raised |-> "none"]
    ELSE IF client_id = ""
    THEN RemoveConnections(
             [c \in {c \in DOMAIN connections :
                        connections[c] # <<Head(disconnected)>> /\ connections[c] # <<>>} |->
                 IF Holds(connections[c], Head(disconnected))
                 THEN ListRemove(connections[c], Head(disconnected)) ELSE connections[c]],
             client_id, Tail(disconnected))
    ELSE IF client_id \notin DOMAIN connections
    THEN [active_connections |-> connections, raised |-> "KeyError"]
    ELSE IF ~Holds(connections[client_id], Head(disconnected))
    THEN [active_connections |-> connections, raised |-> "ValueError"]
    ELSE RemoveConnections(DictWith(connections, client_id,
                                    ListRemove(connections[client_id], Head(disconnected))),
                           client_id, Tail(disconnected))

\* All the connections, client after client.
RECURSIVE AllConnections(_, _)
AllConnections(connections, clients) ==
    IF clients = {} THEN <<>>
    ELSE LET c == CHOOSE c \in clients : \A d \in clients : c = "c1" \/ d # "c1"
         IN connections[c] \o AllConnections(connections, clients \ {c})

\* broadcast(message, client_id) is called, client_id "" standing for None:
\* the list to iterate is the client's own, or a new list of all connections.
Broadcast(client_id) ==
    /\ fanout.pc # "send"
    /\ LET all == client_id = ""
           connections == IF all
                          THEN AllConnections(active_connections, DOMAIN active_connections)
                          ELSE IF client_id \in DOMAIN active_connections
                          THEN active_connections[client_id] ELSE <<>>
       IN fanout' = IF connections = <<>>
                    THEN [NoBroadcast EXCEPT !.pc = "returned", !.client_id = client_id]
                    ELSE [NoBroadcast EXCEPT !.pc = "send", !.client_id = client_id,
                                             !.connections = IF all THEN connections ELSE <<>>,
                                             !.index = 1, !.connection = connections[1],
                                             !.live = ~all]
    /\ UNCHANGED <<active_connections, job_subscribers, endpoint, inbox, job_status, job_update>>

\* The list the broadcast in flight iterates.
Iterated ==
    IF fanout.client_id = "" THEN fanout.connections
    ELSE IF fanout.live THEN active_connections[fanout.client_id] ELSE <<>>

\* The awaited send_text returns or raises, and the loop goes on with the next
\* index of the list, or the cleanup follows.
BroadcastSent ==
    /\ fanout.pc = "send"
    /\ LET connection == fanout.connection
           disconnected == IF Reachable(connection) THEN fanout.disconnected
                           ELSE Append(fanout.disconnected, connection)
           cleaned == RemoveConnections(active_connections, fanout.client_id, disconnected)
       IN IF fanout.index + 1 <= Len(Iterated)
          THEN /\ fanout' = [fanout EXCEPT !.index = @ + 1,
                                           !.connection = Iterated[fanout.index + 1],
                                           !.disconnected = disconnected]
               /\ UNCHANGED active_connections
          ELSE /\ fanout' = [fanout EXCEPT !.disconnected = disconnected,
                                           !.connection = "", !.connections = <<>>,
                                           !.index = 0, !.live = FALSE,
                                           !.pc = IF cleaned.raised = "none" THEN "returned"
                                                  ELSE "raised",
                                           !.outcome = cleaned.raised]
               /\ active_connections' = cleaned.active_connections
    /\ UNCHANGED <<job_subscribers, endpoint, inbox, job_status, job_update>>

\* What a websocket_endpoint does.
EndpointStep(websocket) ==
    \/ Connect(websocket)
    \/ PeerCloses(websocket)
    \/ Disconnect(websocket)
    \/ GetJobReturns(websocket)
    \/ SendInitial(websocket)
    \/ \E job_id \in Jobs : SubscribeJob(websocket, job_id)
    \/ \E job_id \in Jobs : UnsubscribeJob(websocket, job_id)

executorVars == <<convVars, max_learnings_history, sandboxVars, actVars, sendVars, verdictVars,
                  disk, namespaceVars, persistence>>

\* Two endpoints and the job updates.
NextServer ==
    \/ \E websocket \in {"w1", "w2"} : EndpointStep(websocket)
    \/ \E job_id \in Jobs : JobCompletes(job_id)
    \/ \E job_id \in Jobs : BroadcastJobUpdate(job_id)
    \/ JobUpdateSent

SpecServer ==
    InitSandbox /\ [][NextServer /\ UNCHANGED <<executorVars, registryVars, streamVars, jsonVars>>]_vars

\* The endpoints and the broadcasts to clients.
NextBroadcast ==
    \/ \E websocket \in Websockets : EndpointStep(websocket)
    \/ \E client_id \in {"", "c1", "c2"} : Broadcast(client_id)
    \/ BroadcastSent

SpecBroadcast ==
    InitSandbox /\ [][NextBroadcast /\ UNCHANGED <<executorVars, registryVars, streamVars, jsonVars>>]_vars

\* The subscribers of a job in the dict given, none if it has no entry.
Subscribers(subscribers, job_id) ==
    IF job_id \in DOMAIN subscribers THEN subscribers[job_id] ELSE {}

\* C32: a subscribe_job, unsubscribe_job or disconnect processed while
\* broadcast_job_update is suspended in a send never makes the broadcast fail:
\* it raises neither from the iteration of a set that changed nor from the
\* removal from a deleted entry.
C32_BroadcastSurvivesChanges == job_update.pc # "raised"

\* C33: when the send of a job update to one subscriber fails, the broadcast
\* returns normally, the failing websocket is no subscriber any more (the
\* job's entry deleted if the set got empty), and every other subscriber the
\* broadcast started with was sent the message.
C33_FailedSendDropsSubscriber ==
    [][(/\ job_update.pc = "send"
        /\ job_update'.pc # "send"
        /\ job_update'.disconnected # <<>>)
       => LET failed == {job_update'.disconnected[i] : i \in 1..Len(job_update'.disconnected)}
              others == job_update.started_with \ failed
          IN /\ job_update'.pc = "returned"
             /\ Subscribers(job_subscribers', job_update.job_id) \cap failed = {}
             /\ \A j \in DOMAIN job_subscribers' : job_subscribers'[j] # {}
             /\ others \subseteq job_update'.sent]_vars

\* C34: a subscribe_job for an existing job registers the websocket and then
\* sends it exactly one job_update event with the job's current status (the
\* completed one, if the job has completed); and every later job update
\* broadcast for that job is sent to it while it stays subscribed and
\* connected.
C34_SnapshotOnSubscribe ==
    /\ [][\A w \in Websockets, j \in Jobs :
             (endpoint[w].state = "open" /\ endpoint'[w].state = "get_job"
              /\ endpoint'[w].job_id = j)
             => w \in Subscribers(job_subscribers', j) /\ inbox'[w] = inbox[w]]_vars
    /\ [][\A w \in Websockets :
             (endpoint[w].state = "get_job" /\ endpoint'[w].state # "get_job")
             => /\ inbox'[w] = Append(inbox[w], <<"job_update", endpoint[w].job_id,
                                                   job_status[endpoint[w].job_id]>>)
                /\ w \in Subscribers(job_subscribers, endpoint[w].job_id)]_vars
    /\ [][(job_update.pc = "send" /\ job_update'.pc # "send")
          => \A w \in Websockets :
                (/\ w \in job_update.started_with
                 /\ w \in Subscribers(job_subscribers, job_update.job_id)
                 /\ Reachable(w))
                => w \in job_update'.sent]_vars

\* C40: every websocket in a job_subscribers set is registered in
\* active_connections, and neither dict holds an empty set or list.
C40_SubscribersAreConnected ==
    /\ \A j \in DOMAIN job_subscribers :
          /\ job_subscribers[j] # {}
          /\ \A w \in job_subscribers[j] :
                \E c \in DOMAIN active_connections : Holds(active_connections[c], w)
    /\ \A c \in DOMAIN active_connections : active_connections[c] # <<>>

----------------------------------------------------------------------------
(* The tool registry (tools.py, ToolRegistry).  A tool is named by a string; *)
(* the registry keeps _tools and, beside it, an instance attribute per tool. *)

DefaultTools ==
    {"get_page_html_content", "get_page_text_content", "list_working_directory",
     "execute_wsl_command"}
ClientAttributes == {"serp_api_client", "tavily_client", "fal_client"}
CustomTools == {"my_tool"}

\* self.<attribute>: the instance's own attribute, else the class's None.
GetAttr(attribute) ==
    IF attribute \in DOMAIN attributes THEN attributes[attribute] ELSE "None"

\* ToolRegistry.__setattr__(name, value): every name but _tools goes into
\* _tools, then the attribute is set.
SetAttr(registry, attribute, value) ==
    [_tools |-> DictWith(registry._tools, attribute, value),
     attributes |-> DictWith(registry.attributes, attribute, value)]

\* add_tool(name, tool) for each of the names, all with the tool given
RECURSIVE AddTools(_, _, _)
AddTools(registry, names, tool) ==
    IF names = {} THEN registry
    ELSE LET n == CHOOSE n \in names : TRUE
         IN AddTools(SetAttr(registry, n, tool), names \ {n}, tool)

\* set_serp_api_client, set_tavily_client, set_fal_client: self.<client> = client
SetClient(attribute) ==
    /\ LET after == SetAttr([_tools |-> tools, attributes |-> attributes], attribute, "client")
       IN /\ tools' = after._tools
          /\ attributes' = after.attributes
    /\ UNCHANGED catalogue

\* init_tools(): the four default tools, search_web with a SERP or a Tavily
\* client, the two image tools with a FAL client.
InitTools ==
    /\ LET search == IF GetAttr("serp_api_client") # "None" \/ GetAttr("tavily_client") # "None"
                     THEN {"search_web"} ELSE {}
           image == IF GetAttr("fal_client") # "None"
                    THEN {"generate_image", "generate_altered_image"} ELSE {}
           added == DefaultTools \cup search \cup image
           after == AddTools([_tools |-> tools, attributes |-> attributes], added, "tool")
       IN /\ tools' = after._tools
          /\ attributes' = after.attributes
          /\ catalogue' = catalogue \cup added

\* add_tool(name, tool)
AddTool(tool_name) ==
    /\ LET after == AddTools([_tools |-> tools, attributes |-> attributes], {tool_name}, "tool")
       IN /\ tools' = after._tools
          /\ attributes' = after.attributes
    /\ catalogue' = catalogue \cup {tool_name}

\* remove_tool(name): del self._tools[name] raises KeyError for a name not
\* there; then delattr(self, name).
RemoveTool(tool_name) ==
    IF tool_name \in DOMAIN tools
    THEN /\ tools' = DictWithout(tools, tool_name)
         /\ attributes' = DictWithout(attributes, tool_name)
         /\ catalogue' = catalogue \ {tool_name}
    ELSE UNCHANGED registryVars

NextRegistry ==
    \/ \E attribute \in ClientAttributes : SetClient(attribute)
    \/ InitTools
    \/ \E tool_name \in CustomTools : AddTool(tool_name)
    \/ \E tool_name \in CustomTools \cup {"search_web", "generate_image", "serp_api_client",
                                          "execute_wsl_command"} : RemoveTool(tool_name)

SpecRegistry ==
    InitSandbox /\ [][NextRegistry /\ UNCHANGED <<executorVars, serverVars, streamVars, jsonVars>>]_vars

\* C35: the names iterating the registry yields are exactly the tools added
\* with add_tool or init_tools and not removed since; configuring a provider
\* client adds no entry.
C35_CatalogueIsAddedTools == DOMAIN tools = catalogue

----------------------------------------------------------------------------
(* The safety audit's own failure *)

\* C37: when the safety-audit model call raises, the proposed action has no
\* side effect: with a user to prompt, perform_action ends at once, with one
\* user record reporting the error appended and no execution result; without,
\* the outcome is that of an UNSAFE verdict, the risk summary is asked for,
\* and nothing runs while it is awaited.
C37_AuditFailureRunsNothing ==
    [][ /\ (act_pc["e1"] = "audit" /\ last_op' = Op("audit_raised", "e1"))
              => /\ effects' = effects
                 /\ captured' = captured
                 /\ approved' = approved
                 /\ IF can_prompt_user["e1"]
                    THEN LET appended == AppendedSince(conversation'[Self("e1")], next_uid)
                         IN /\ Len(appended) = 1
                            /\ appended[1].role = "user"
                            /\ appended[1].content = ErrorRecord.content
                            /\ act_pc'["e1"] = "idle"
                            /\ execution_history' = execution_history
                    ELSE /\ act_pc'["e1"] = "risk_summary"
                         /\ last_call'.kind = "risk_summary"
                         /\ conversation' = conversation
        /\ act_pc["e1"] = "risk_summary"
              => /\ effects' = effects
                 /\ captured' = captured
                 /\ approved' = approved
      ]_vars

\* C37 witness: with a user to prompt, the audit of a response raised; the
\* error is the last record, a user turn, and nothing was performed.
C37_Witness ==
    /\ last_op = Op("audit_raised", "e1")
    /\ can_prompt_user["e1"]
    /\ act_pc["e1"] = "idle"
    /\ effects = {}
    /\ LET last == Conv("e1")[Len(Conv("e1"))]
       IN last.role = "user" /\ last.content = ErrorRecord.content

----------------------------------------------------------------------------
(* The process-wide streams after overlapping executions *)

\* C38: once every sandbox execution that was started has completed,
\* sys.stdout (and sys.stderr, saved and restored in the same statements) is
\* the object it was before the first of them started, not a capture buffer
\* of an execution.
C38_StreamsRestored == Running = {} => sys_stdout = Console

----------------------------------------------------------------------------
(* stream_model: the attempt loop around _convert_and_stream.  A provider    *)
(* stream is numbered by the attempt that opened it; a chunk is               *)
(* [stream, index].                                                           *)

MaxChunks == 2
MaxCalls == 2

\* stream_model(messages, max_attempts) is called and the first provider
\* stream is opened.
StreamModel(max_attempts) ==
    /\ stream_call.pc \in {"idle", "returned", "raised"}
    /\ token_metrics.updates < MaxCalls
    /\ stream_call' = [pc |-> "streaming", attempt |-> 0, max_attempts |-> max_attempts,
                       stream |-> 1, position |-> 0]
    /\ yielded' = <<>>
    /\ UNCHANGED token_metrics

\* "async for chunk in self._convert_and_stream(messages): yield chunk"
ChunkArrives ==
    /\ stream_call.pc = "streaming"
    /\ stream_call.position < MaxChunks
    /\ stream_call' = [stream_call EXCEPT !.position = @ + 1]
    /\ yielded' = Append(yielded, [stream |-> stream_call.stream,
                                   index |-> stream_call.position + 1])
    /\ UNCHANGED token_metrics

\* The provider stream ends: _convert_and_stream adds this stream's tokens to
\* the totals, and stream_model returns.
StreamEnds ==
    /\ stream_call.pc = "streaming"
    /\ stream_call' = [stream_call EXCEPT !.pc = "returned"]
    /\ token_metrics' = [token_metrics EXCEPT !.total_completion_tokens = @ + stream_call.position,
                                              !.updates = @ + 1]
    /\ UNCHANGED yielded

\* The provider stream raises, before or after chunks: the except clause
\* counts the attempt and, attempts left, sleeps and opens a new stream.
StreamFails ==
    /\ stream_call.pc = "streaming"
    /\ LET attempt == stream_call.attempt + 1
       IN stream_call' = IF attempt < stream_call.max_attempts
                         THEN [stream_call EXCEPT !.attempt = attempt, !.stream = @ + 1,
                                                  !.position = 0]
                         ELSE [stream_call EXCEPT !.attempt = attempt, !.pc = "raised"]
    /\ UNCHANGED <<yielded, token_metrics>>

NextStream ==
    \/ \E max_attempts \in 1..MaxAttempts : StreamModel(max_attempts)
    \/ ChunkArrives
    \/ StreamEnds
    \/ StreamFails

SpecStream ==
    InitSandbox /\ [][NextStream /\ UNCHANGED <<executorVars, serverVars, registryVars, jsonVars>>]_vars

\* C39: the chunks the consumer of stream_model has received are the chunks
\* of one provider stream, in order from its first; nothing of a second
\* stream follows chunks of a failed one.
C39_OneStreamOnly ==
    \A i \in 1..Len(yielded) :
        /\ yielded[i].stream = yielded[1].stream
        /\ yielded[i].index = i

----------------------------------------------------------------------------
(* process_json_response and clean_json_response.  The helper's file is not  *)
(* part of the sources at hand; it is modelled from its description and the  *)
(* cases of test_clean_json_response.  A response is a list of tokens;       *)
(* "fence_json" is the opening of a json code block, "fence" its closing.    *)

MaxJsonTokens == 4
JsonTokens == {"{", "}", "fence_json", "fence", "<think>", "</think>", "text"}
Responses == UNION {[1..n -> JsonTokens] : n \in 0..MaxJsonTokens}

\* The first and the last position of a token in a text, 0 if it is not there.
Find(text, token) ==
    IF \E i \in 1..Len(text) : text[i] = token
    THEN CHOOSE i \in 1..Len(text) : text[i] = token /\ \A j \in 1..(i - 1) : text[j] # token
    ELSE 0
RFind(text, token) ==
    IF \E i \in 1..Len(text) : text[i] = token
    THEN CHOOSE i \in 1..Len(text) : text[i] = token /\ \A j \in (i + 1)..Len(text) : text[j] # token
    ELSE 0

\* remove_think_tags: every <think>...</think> block goes, from the left,
\* each ending at the first </think> after its <think>.
RECURSIVE remove_think_tags(_)
remove_think_tags(text) ==
    LET open == Find(text, "<think>")
        rest == SubSeq(text, open + 1, Len(text))
        close == Find(rest, "</think>")
    IN IF open = 0 \/ close = 0 THEN text
       ELSE SubSeq(text, 1, open - 1)
            \o remove_think_tags(SubSeq(rest, close + 1, Len(rest)))

\* A text that is one JSON object and nothing else; a text with no object in it.
IsBareObject(text) == Len(text) >= 2 /\ text[1] = "{" /\ text[Len(text)] = "}"
HasObject(text) == Find(text, "{") # 0 /\ Find(text, "{") < RFind(text, "}")

\* The object's text: think blocks removed, the inside of a ```json fence
\* taken, then what lies from the first "{" to the last "}".
ExtractObject(text) ==
    LET thought == remove_think_tags(text)
        start == Find(thought, "fence_json")
        after == IF start = 0 THEN thought ELSE SubSeq(thought, start + 1, Len(thought))
        end == IF start = 0 THEN 0 ELSE RFind(after, "fence")
        inside == IF end = 0 THEN after ELSE SubSeq(after, 1, end - 1)
    IN IF HasObject(inside)
       THEN SubSeq(inside, Find(inside, "{"), RFind(inside, "}"))
       ELSE inside

\* An extraction that does not look whether the text is an object already.
clean_json_response_Always(text) == ExtractObject(text)

\* clean_json_response(text)
clean_json_response(text) ==
    IF IsBareObject(text) \/ ~HasObject(text)
    THEN text
    ELSE ExtractObject(text)

\* process_json_response(response_str), its call of clean_json_response
ProcessJsonResponse(response) ==
    /\ passes = 0
    /\ response_str' = response
    /\ json_content' = clean_json_response(response)
    /\ passes' = 1

\* The cleaned text is cleaned again.
CleanAgain ==
    /\ passes = 1
    /\ json_content' = clean_json_response(json_content)
    /\ passes' = 2
    /\ UNCHANGED response_str

NextJson ==
    \/ \E response \in Responses : ProcessJsonResponse(response)
    \/ CleanAgain

SpecJson ==
    InitSandbox /\ [][NextJson /\ UNCHANGED <<executorVars, serverVars, registryVars, streamVars>>]_vars

====
